---- MODULE Spec2Model ----
(***************************************************************************)
(* getgmail: the download pipeline (cmd/download.go runDownload), the      *)
(* Gmail client (pkg/gmail: GetMessage, processAttachment,                 *)
(* isRetryableError) and the file writer (pkg/output: generateFilePrefix,  *)
(* CreateEmailFolder, WriteEmail), as one state machine.                   *)
(*                                                                         *)
(* Strings are sequences of one-character strings.  A formatted date       *)
(* (layout 2006-01-02_15-04-05, 19 characters, second resolution) is       *)
(* carried as the integer of that wall-clock second; a name that starts    *)
(* with a formatted date is the pair of that integer and the characters    *)
(* that follow it.                                                         *)
(***************************************************************************)
EXTENDS Integers, Sequences, FiniteSets, TLC

(* ------------------------------ bounds -------------------------------- *)

\* The wall clock reads 1..MaxClock (seconds); MaxClock + 1 stands for any
\* later second, and the clock is not read there.
MaxClock == 3
\* Injected failures (remote errors, failed writes) in one behaviour.
MaxFaults == 2
\* Times the command is run on the same output directory.
MaxRuns == 2

(* ------------------------- program constants -------------------------- *)

PrefixBudget == 200
DateStrLen == 19
\* The longest file name of the file system (NAME_MAX).
NameMax == 255
MaxPageSize == 500
BackoffSeconds == 2
MaxAttachmentSize == 10485760
MaxAttachmentIdLen == 500
StatusTooManyRequests == 429
StatusServerError == 500

(* ------------------------------ strings ------------------------------- *)

LowerChars == {"a","b","c","d","e","f","g","h","i","j","k","l","m",
               "n","o","p","q","r","s","t","u","v","w","x","y","z"}
UpperChars == {"A","B","C","D","E","F","G","H","I","J","K","L","M",
               "N","O","P","Q","R","S","T","U","V","W","X","Y","Z"}
DigitChars == {"0","1","2","3","4","5","6","7","8","9"}
\* The regexp class \w.
WordChars == LowerChars \cup UpperChars \cup DigitChars \cup {"_"}
\* The regexp class \s.
SpaceChars == {" ", "\t", "\n", "\r", "\f"}

\* strings.HasPrefix
HasPrefix(s, p) == Len(p) <= Len(s) /\ SubSeq(s, 1, Len(p)) = p

\* strings.HasSuffix
HasSuffix(s, p) ==
    Len(p) <= Len(s) /\ SubSeq(s, Len(s) - Len(p) + 1, Len(s)) = p

\* strings.Contains
Contains(s, sub) ==
    \E k \in 0..(Len(s) - Len(sub)) : SubSeq(s, k + 1, k + Len(sub)) = sub

\* strings.ToLower on ASCII text
ToLower(s) ==
    LET upper == <<"A","B","C","D","E","F","G","H","I","J","K","L","M",
                   "N","O","P","Q","R","S","T","U","V","W","X","Y","Z">>
        lower == <<"a","b","c","d","e","f","g","h","i","j","k","l","m",
                   "n","o","p","q","r","s","t","u","v","w","x","y","z">>
    IN  [k \in 1..Len(s) |->
            IF s[k] \in UpperChars
            THEN lower[CHOOSE n \in 1..26 : upper[n] = s[k]]
            ELSE s[k]]

\* s[:n] for n <= len(s)
Truncate(s, n) == SubSeq(s, 1, n)

\* regexp ReplaceAllString(s, rep) for a pattern C+ over the class C: every
\* maximal run of characters of C becomes rep.
ReplaceRuns(s, class, rep) ==
    LET \* What the characters lo..hi of s become: the last character of a
        \* run becomes rep, the ones before it nothing.
        RECURSIVE Pieces(_, _)
        Pieces(lo, hi) ==
            IF lo > hi THEN <<>>
            ELSE IF lo = hi
            THEN IF s[lo] \in class
                 THEN IF lo < Len(s) /\ s[lo + 1] \in class
                      THEN <<>>
                      ELSE rep
                 ELSE <<s[lo]>>
            ELSE LET mid == (lo + hi) \div 2
                 IN  Pieces(lo, mid) \o Pieces(mid + 1, hi)
    IN  Pieces(1, Len(s))

\* strings.Trim(s, cutset)
RECURSIVE TrimLeft(_, _)
TrimLeft(s, cutset) ==
    IF s # <<>> /\ Head(s) \in cutset THEN TrimLeft(Tail(s), cutset) ELSE s

RECURSIVE TrimRight(_, _)
TrimRight(s, cutset) ==
    IF s # <<>> /\ s[Len(s)] \in cutset
    THEN TrimRight(SubSeq(s, 1, Len(s) - 1), cutset)
    ELSE s

Trim(s, cutset) == TrimRight(TrimLeft(s, cutset), cutset)

\* filepath.Ext: the suffix beginning at the final dot of the name, empty
\* when there is none.
Ext(name) ==
    IF name = <<>> THEN <<>>
    ELSE IF \E k \in 1..Len(name) : name[k] = "."
         THEN LET last == CHOOSE k \in 1..Len(name) :
                              /\ name[k] = "."
                              /\ \A j \in (k + 1)..Len(name) : name[j] # "."
              IN  SubSeq(name, last, Len(name))
         ELSE <<>>

\* strings.TrimSuffix
TrimSuffix(s, suf) ==
    IF HasSuffix(s, suf) THEN SubSeq(s, 1, Len(s) - Len(suf)) ELSE s

\* fmt.Sprintf("%d", n) for 0 <= n <= 9
Digit(n) == << <<"0","1","2","3","4","5","6","7","8","9">>[n + 1] >>

(* --------------------------- string literals -------------------------- *)

StrTimeout == <<"t","i","m","e","o","u","t">>
StrDeadlineExceeded == <<"d","e","a","d","l","i","n","e"," ","e","x","c","e","e","d","e","d">>
StrConnectionReset == <<"c","o","n","n","e","c","t","i","o","n"," ","r","e","s","e","t">>
StrMetadataSuffix == <<"_","m","e","t","a","d","a","t","a",".","t","x","t">>
StrBodySuffix == <<"_","b","o","d","y",".","h","t","m","l">>
StrNoSubject == <<"n","o","-","s","u","b","j","e","c","t">>
StrAttachmentPrefix == <<"a","t","t","a","c","h","m","e","n","t","_">>
StrUnderscore == <<"_">>
StrDenyMessageId == "19855d64da73b5be"
StrDenyMark == <<"A","N","G","j","d","J">>

(* --------------------------- Retry Classifier ------------------------- *)

\* An error value: nil, a *googleapi.Error (Code and Message), or any other
\* error (only its Error() text, in msg).
NilError == [kind |-> "nil", code |-> 0, msg |-> <<>>]
ApiError(code, msg) == [kind |-> "api", code |-> code, msg |-> msg]
OtherError(msg) == [kind |-> "other", code |-> 0, msg |-> msg]

\* isRetryableError with the server-error test written as Code > 500.
isRetryableError_Above500(err) ==
    IF err.kind = "nil" THEN FALSE
    ELSE IF err.kind = "api"
         THEN err.code = StatusTooManyRequests \/ err.code > StatusServerError
         ELSE \/ Contains(err.msg, StrTimeout)
              \/ Contains(err.msg, StrDeadlineExceeded)
              \/ Contains(err.msg, StrConnectionReset)

isRetryableError(err) ==
    IF err.kind = "nil" THEN FALSE
    ELSE IF err.kind = "api"
         THEN err.code = StatusTooManyRequests \/ err.code >= StatusServerError
         ELSE \/ Contains(err.msg, StrTimeout)
              \/ Contains(err.msg, StrDeadlineExceeded)
              \/ Contains(err.msg, StrConnectionReset)

(* ------------------------- Folder/Name Planner ------------------------ *)

\* The layouts parseEmailDate tries, in order.
KnownLayouts == <<"Mon, 2 Jan 2006 15:04:05 -0700",
                  "Mon, 02 Jan 2006 15:04:05 -0700",
                  "2 Jan 2006 15:04:05 -0700",
                  "02 Jan 2006 15:04:05 -0700",
                  "Mon, 2 Jan 2006 15:04:05 MST",
                  "Mon, 02 Jan 2006 15:04:05 -0700",
                  "Mon, 02 Jan 2006 15:04:05 MST",
                  "2006-01-02T15:04:05Z07:00">>

\* A Date header: the layout its text is written in ("" when it is in no
\* layout at all; a day written 2 has one digit, a day written 02 has two,
\* a zone written -0700 is numeric and one written MST is a name), the
\* wall-clock second it spells in its own zone, and whether a parenthesized
\* zone name such as (UTC) follows.
DateHeader(layout, sec, comment) ==
    [layout |-> layout, sec |-> sec, comment |-> comment]

\* regexp \s*\([^)]+\)\s*$ replaced by "": the trailing comment is dropped.
StripZoneComment(date) == [date EXCEPT !.comment = FALSE]

\* time.Parse(layout, text): succeeds when the text is in that layout; a
\* layout whose day is written 2 also takes a day of two digits.
ParsesAs(date, layout) ==
    LET oneDigitDay ==
            CASE date.layout = "Mon, 02 Jan 2006 15:04:05 -0700" ->
                     "Mon, 2 Jan 2006 15:04:05 -0700"
              [] date.layout = "02 Jan 2006 15:04:05 -0700" ->
                     "2 Jan 2006 15:04:05 -0700"
              [] date.layout = "Mon, 02 Jan 2006 15:04:05 MST" ->
                     "Mon, 2 Jan 2006 15:04:05 MST"
              [] OTHER -> date.layout
    IN  /\ ~date.comment
        /\ layout \in {date.layout, oneDigitDay}

\* parseEmailDate finds no layout for the date and falls back on time.Now().
Unparseable(date) ==
    ~\E k \in 1..Len(KnownLayouts) :
        ParsesAs(StripZoneComment(date), KnownLayouts[k])

\* parseEmailDate returning the zero time when no layout matches.
parseEmailDate_ZeroTime(date, t) == StripZoneComment(date).sec

\* parseEmailDate, formatted: the second the folder name spells.  t is what
\* time.Now() returns if it is called.
parseEmailDate(date, t) ==
    IF Unparseable(date) THEN t ELSE StripZoneComment(date).sec

sanitizeForFilename(s) ==
    LET cleaned == SelectSeq(s, LAMBDA c :
                       c \in WordChars \cup SpaceChars \cup {".", "-"})
        dashed  == ReplaceRuns(cleaned, SpaceChars, <<"-">>)
        single  == ReplaceRuns(dashed, {"-"}, <<"-">>)
    IN  Trim(single, {"-"})

\* generateFilePrefix: [sec, subj] stands for the string
\* <formatted date> "_" subj.
generateFilePrefix(email, now) ==
    LET sec     == parseEmailDate(email.Date, now)
        cleaned == sanitizeForFilename(email.Subject)
        subject == IF cleaned = <<>> THEN StrNoSubject ELSE cleaned
        maxSubjectLen == PrefixBudget - DateStrLen - 1
    IN  [sec  |-> sec,
         subj |-> IF Len(subject) > maxSubjectLen
                  THEN Truncate(subject, maxSubjectLen)
                  ELSE subject]

\* len(prefix)
PrefixLen(prefix) == DateStrLen + 1 + Len(prefix.subj)

\* GenerateFolderName: the prefix, computed without touching the disk.
GenerateFolderName(email, now) == generateFilePrefix(email, now)

(* ------------------------------ mailbox ------------------------------- *)

\* An attachment-bearing node of a message's part tree.
Node(aid, size, filename, decodes) ==
    [AttachmentId |-> aid, Size |-> size, Filename |-> filename,
     Decodes |-> decodes]

\* A remote message: its identifier, the Subject and Date headers and the
\* attachment-bearing nodes of its part tree in tree order.
Message(id, subject, date, parts) ==
    [Id |-> id, Subject |-> subject, Date |-> date, Parts |-> parts]

MsgReport ==
    Message("m1", <<"H","i">>,
            DateHeader("Mon, 2 Jan 2006 15:04:05 -0700", 0, FALSE),
            << Node(<<"x","1">>, 10, <<"a",".","t","x","t">>, TRUE),
               Node(<<"x","2">>, 10, <<"a","!",".","t","x","t">>, TRUE) >>)
MsgReply ==
    Message("m2", <<"H","i","!">>,
            DateHeader("Mon, 02 Jan 2006 15:04:05 -0700", 0, TRUE),
            << >>)
MsgNoDate ==
    Message("m3", << >>, DateHeader("", 0, FALSE), << >>)
MsgPunct ==
    Message("m4", <<"?">>,
            DateHeader("2006-01-02T15:04:05Z07:00", 2, FALSE),
            << Node(<<"x","3">>, MaxAttachmentSize + 1, <<"b","i","g">>, TRUE) >>)

\* Messages for the attachment walk.  Two nodes of MsgTwice carry the same
\* attachment id, and the bytes of its last node do not decode.
MsgTwice ==
    Message("m5", <<"T","w","i","c","e">>,
            DateHeader("Mon, 2 Jan 2006 15:04:05 -0700", 0, FALSE),
            << Node(<<"x","1">>, 10, <<"a",".","t","x","t">>, TRUE),
               Node(<<"x","1">>, 10, << >>, TRUE),
               Node(<<"x","4">>, 10, <<"q">>, FALSE) >>)
\* Nodes at, just under and just over the size ceiling, under a subject of
\* 301 characters.
MsgSizes ==
    Message("m6", [k \in 1..301 |-> IF k % 50 = 0 THEN " " ELSE "S"],
            DateHeader("Mon, 2 Jan 2006 15:04:05 -0700", 0, FALSE),
            << Node(<<"s","1">>, MaxAttachmentSize, <<"a","t">>, TRUE),
               Node(<<"s","2">>, MaxAttachmentSize - 1, <<"u","n","d","e","r">>, TRUE),
               Node(<<"s","3">>, MaxAttachmentSize + 1, <<"o","v","e","r">>, TRUE) >>)
\* The message of the denylist: the listed node, a node whose id is too
\* long, a node without an id, and an ordinary one.
MsgDeny ==
    Message(StrDenyMessageId, <<"D","e","n","y">>,
            DateHeader("Mon, 2 Jan 2006 15:04:05 -0700", 0, FALSE),
            << Node(<<"i","d">> \o StrDenyMark, 10, <<"b","a","r">>, TRUE),
               Node([k \in 1..(MaxAttachmentIdLen + 1) |-> "z"], 10, <<"l">>, TRUE),
               Node(<< >>, 10, <<"n">>, TRUE),
               Node(<<"o","k">>, 10, <<"o","k">>, TRUE) >>)
\* Another message with a node whose id has the denylist's mark, and a
\* node whose id is as long as allowed.  Two of its three filenames are the
\* same once sanitized, and the third is what the first duplicate is
\* renamed to.
MsgMarked ==
    Message("m7", <<"M","a","r","k">>,
            DateHeader("Mon, 2 Jan 2006 15:04:05 -0700", 0, FALSE),
            << Node(<<"i","d">> \o StrDenyMark, 10,
                    <<"a",".","t","x","t">>, TRUE),
               Node([k \in 1..MaxAttachmentIdLen |-> "z"], 10,
                    <<"a","_","1",".","t","x","t">>, TRUE),
               Node(<<"x","5">>, 10, <<"a","!",".","t","x","t">>, TRUE) >>)
\* The last mailbox has a message whose subject fills the prefix and whose
\* first attachment has a name of 60 characters: a file name of 261.
TreeMailboxes ==
    << <<MsgTwice>>, <<MsgSizes>>, <<MsgDeny>>, <<MsgMarked>>,
       << Message("m8", [k \in 1..200 |-> "S"],
                  DateHeader("Mon, 2 Jan 2006 15:04:05 -0700", 0, FALSE),
                  << Node(<<"x","6">>, 10,
                          [k \in 1..56 |-> "n"] \o <<".","t","x","t">>, TRUE),
                     Node(<<"x","7">>, 10, <<"b",".","t","x","t">>, TRUE) >>) >> >>

\* The mailboxes of the runs, newest message first.
Mailboxes == << << >>,
                << MsgReport >>,
                << MsgReport, MsgReply >>,
                << MsgNoDate >>,
                << MsgPunct, MsgNoDate >> >>

\* The default of the --count flag.
DefaultCount == 100

\* The settings of the runs: the mailbox (an index into Mailboxes), the
\* --count flag and the value of DEBUG_EMAIL_ID ("" when unset).
Config(b, c, d) == [box |-> b, count |-> c, debug |-> d]
Configs == {Config(b, DefaultCount, "") : b \in 1..Len(Mailboxes)}
               \cup {Config(3, 0, ""),
                     Config(5, 1, ""),
                     Config(5, DefaultCount, "m3"),
                     Config(2, DefaultCount, "zz")}

\* Errors a remote call can fail with.
StrIoTimeout == <<"i","/","o"," ","t","i","m","e","o","u","t">>
StrCtxDeadline == <<"c","o","n","t","e","x","t"," ","d","e","a","d","l","i","n","e"," ","e","x","c","e","e","d","e","d">>
StrNotFound == <<"n","o","t"," ","f","o","u","n","d">>
StrResetByPeer == <<"r","e","a","d",":"," ","c","o","n","n","e","c","t","i","o","n"," ","r","e","s","e","t"," ","b","y"," ","p","e","e","r">>
StrCapitalTimeout == <<"C","l","i","e","n","t",".","T","i","m","e","o","u","t">>
StrTimeOut == <<"t","i","m","e","d"," ","o","u","t">>
RemoteErrors == { ApiError(429, << >>), ApiError(404, StrNotFound),
                  OtherError(StrIoTimeout) }
\* The error of a call made on a context whose deadline has passed.
CtxError == OtherError(StrCtxDeadline)

Min(a, b) == IF a <= b THEN a ELSE b

(* ------------------------------- state -------------------------------- *)

VARIABLES
    box,            \* index into Mailboxes: the remote mailbox (never changes)
    count,          \* the --count flag
    debugEmailID,   \* DEBUG_EMAIL_ID
    run,            \* which run of the command this is
    probe,          \* the argument of a function that is run by itself
    verdict,        \* what that function returned
    now,            \* the wall clock when the program last read it or slept
    faults,         \* failures injected so far
    pc,             \* where the current run stands
    result,         \* "none" while it runs, then how it ended
    service,        \* c.service # nil
    ctxDone,        \* the run's context is past its deadline
    messages,       \* the identifiers ListMessages returned
    i,              \* index, from 1, of the current item
    processedCount,
    skippedCount,
    failedCount,
    attempt,        \* number of the remote attempt being made
    part,           \* index of the node extractAttachments is at
    attachmentMap,  \* attachments downloaded so far
    email,          \* the EmailMessage GetMessage builds and returns
    folderPath,     \* WriteEmail's folder
    filePrefix,     \* WriteEmail's file prefix
    j,              \* index of the attachment WriteEmail is at
    dirs,           \* folders of the output directory
    files,          \* files of the output directory
    calls,          \* remote calls made for the current item
    outcomes,       \* how each finished item of this run ended
    setupErr,       \* which of Connect and ListMessages failed in this run
    fsAtStart,      \* the output directory when this run began
    prev            \* how the run before this one ended, and where if it
                    \* was killed while writing an email

cfgVars   == <<box, count, debugEmailID, run, probe, verdict>>
countVars == <<processedCount, skippedCount, failedCount>>
getVars   == <<attempt, part, attachmentMap, email>>
writeVars == <<folderPath, filePrefix, j>>
fsVars    == <<dirs, files>>
histVars  == <<setupErr, fsAtStart, prev>>
vars == <<box, count, debugEmailID, run, probe, verdict, now, faults, pc, result, service, ctxDone,
          messages, i, processedCount, skippedCount, failedCount, attempt,
          part, attachmentMap, email, folderPath, filePrefix, j, dirs, files,
          calls, outcomes, setupErr, fsAtStart, prev>>

\* What time.Now() can return where parseEmailDate is called on date: the
\* clock is read only when the date parses in no layout.
TimeNow(date) == IF Unparseable(date) THEN now..MaxClock ELSE {now}

Mailbox == (Mailboxes \o TreeMailboxes)[box]
MailboxIds == [k \in 1..Len(Mailbox) |-> Mailbox[k].Id]
RemoteMessage(id) == CHOOSE m \in {Mailbox[k] : k \in 1..Len(Mailbox)} : m.Id = id

NoPrefix == [sec |-> 0, subj |-> << >>]
NoEmail == [ID |-> "", Subject |-> << >>, Date |-> DateHeader("", 0, FALSE),
            Attachments |-> << >>]
NoRun == [result |-> "none", pc |-> ""]

\* The state a run starts in, whatever its settings.
Fresh ==
    /\ run = 1
    /\ now = 1
    /\ faults = 0
    /\ pc = "connect"
    /\ result = "none"
    /\ service = FALSE
    /\ ctxDone = FALSE
    /\ messages = << >>
    /\ i = 0
    /\ processedCount = 0
    /\ skippedCount = 0
    /\ failedCount = 0
    /\ attempt = 0
    /\ part = 0
    /\ attachmentMap = {}
    /\ email = NoEmail
    /\ folderPath = NoPrefix
    /\ filePrefix = NoPrefix
    /\ j = 0
    /\ dirs = {}
    /\ files = {}
    /\ calls = << >>
    /\ outcomes = << >>
    /\ setupErr = ""
    /\ fsAtStart = [dirs |-> {}, files |-> {}]
    /\ prev = NoRun

Init ==
    /\ \E c \in Configs :
         box = c.box /\ count = c.count /\ debugEmailID = c.debug
    /\ probe = NilError
    /\ verdict = FALSE
    /\ Fresh

(* ---------------------------- file system ----------------------------- *)

\* The modification time of a folder the program has not set.
FsTime == 0 - 1

\* os.Stat(folder) never succeeding.
DirExists_Never(ds, name) == FALSE

\* os.Stat(folder) succeeds
DirExists(ds, name) == \E d \in ds : d.name = name

\* os.MkdirAll
MkdirAll(ds, name) ==
    IF DirExists(ds, name) THEN ds
    ELSE ds \cup {[name |-> name, mtime |-> FsTime]}

\* os.Chtimes
Chtimes(ds, name, sec) ==
    {IF d.name = name THEN [d EXCEPT !.mtime = sec] ELSE d : d \in ds}

\* A file: the folder it is in, its name (the formatted second sec followed
\* by the characters rest) and what it holds.
File(dir, sec, rest, data) ==
    [dir |-> dir, sec |-> sec, rest |-> rest, data |-> data]

SamePath(f, dir, sec, rest) == f.dir = dir /\ f.sec = sec /\ f.rest = rest

\* os.Stat(path) succeeds
FileExists(fs, dir, sec, rest) == \E f \in fs : SamePath(f, dir, sec, rest)

\* os.WriteFile: the file is created, or truncated and written again.
WriteFile(fs, dir, sec, rest, data) ==
    {f \in fs : ~SamePath(f, dir, sec, rest)} \cup {File(dir, sec, rest, data)}

\* filepath.Glob(folder/*suffix)
Glob(fs, dir, suffix) == {f \in fs : f.dir = dir /\ HasSuffix(f.rest, suffix)}

\* What a file holds.
MetadataOf(e) ==
    [kind |-> "metadata", id |-> e.ID, aid |-> << >>, n |-> Len(e.Attachments)]
BodyOf(e) == [kind |-> "body", id |-> e.ID, aid |-> << >>, n |-> 0]
DataOf(e, a) == [kind |-> "data", id |-> e.ID, aid |-> a.AttachmentID, n |-> 0]
\* What a file holds after a write that failed part-way.
Partial(e) == [kind |-> "partial", id |-> e.ID, aid |-> << >>, n |-> 0]

\* strconv.Itoa
RECURSIVE Itoa(_)
Itoa(n) == IF n < 10 THEN Digit(n) ELSE Itoa(n \div 10) \o Digit(n % 10)

(* ------------------------------ listing ------------------------------- *)

\* One page of Users.Messages.List: the identifiers after offset pageToken
\* (0 is the empty token), at most pageSize of them, and the next token.
ListPage(ids, pageToken, pageSize) ==
    [Messages      |-> SubSeq(ids, pageToken + 1,
                              Min(pageToken + pageSize, Len(ids))),
     NextPageToken |-> IF pageToken + pageSize < Len(ids)
                       THEN pageToken + pageSize ELSE 0]

\* The page size with every page as large as what remains to be listed.
PageSize_Uncapped(remaining) == remaining

\* The page size ListMessages asks for.
PageSize(remaining) == Min(remaining, MaxPageSize)

\* The loop of ListMessages: acc holds the messages so far and, in
\* Requests, the page token and page size of each call made.
RECURSIVE ListLoop(_, _, _, _)
ListLoop(ids, pageToken, remaining, acc) ==
    IF remaining <= 0 THEN acc
    ELSE LET pageSize == PageSize(remaining)
             resp     == ListPage(ids, pageToken, pageSize)
             got      == [Messages |-> acc.Messages \o resp.Messages,
                          Requests |-> Append(acc.Requests,
                                          [pageToken |-> pageToken,
                                           pageSize  |-> pageSize])]
             left     == remaining - Len(resp.Messages)
         IN  IF resp.NextPageToken = 0 \/ left <= 0
             THEN got
             ELSE ListLoop(ids, resp.NextPageToken, left, got)

ListMessages(ids, maxResults) ==
    ListLoop(ids, 0, maxResults, [Messages |-> << >>, Requests |-> << >>]).Messages

(* --------------------------- retry decisions -------------------------- *)

\* GetMessage retrying whenever the classifier accepts the error, however
\* many attempts were made.
GetMessageRetries_Unbounded(err, n) == isRetryableError(err)

\* GetMessage: a failed fetch is tried once more when it was the first
\* attempt and the classifier accepts the error.
GetMessageRetries(err, n) == n = 1 /\ isRetryableError(err)

\* processAttachment: the same for a failed download.
AttachmentRetries(err, n) == n = 1 /\ isRetryableError(err)

\* processAttachment without the size test.
Filtered_NoSizeLimit(messageID, node) ==
    \/ node.AttachmentId = << >>
    \/ messageID = StrDenyMessageId /\ Contains(node.AttachmentId, StrDenyMark)
    \/ Len(node.AttachmentId) > MaxAttachmentIdLen

\* processAttachment without the test for the known message.
Filtered_NoDenylist(messageID, node) ==
    \/ node.AttachmentId = << >>
    \/ node.Size > MaxAttachmentSize
    \/ Len(node.AttachmentId) > MaxAttachmentIdLen

\* processAttachment's skips, all before any download.
Filtered(messageID, node) ==
    \/ node.AttachmentId = << >>
    \/ messageID = StrDenyMessageId /\ Contains(node.AttachmentId, StrDenyMark)
    \/ node.Size > MaxAttachmentSize
    \/ Len(node.AttachmentId) > MaxAttachmentIdLen

\* The filename of a node: the Content-Disposition one, else synthesized.
FilenameOf(node) ==
    IF node.Filename = << >>
    THEN StrAttachmentPrefix \o node.AttachmentId
    ELSE node.Filename

Attachment(node) ==
    [Filename |-> FilenameOf(node), Size |-> node.Size,
     AttachmentID |-> node.AttachmentId]

\* attachmentMap[attachmentID] = *attachment
\* A map keyed by the whole attachment instead of its id.
MapPut_Add(m, a) == m \cup {a}

MapPut(m, a) ==
    {x \in m : x.AttachmentID # a.AttachmentID} \cup {a}

\* The map keeping what processAttachment returned even when the bytes did
\* not decode.
Collect_Placeholder(m, node) == MapPut(m, Attachment(node))

\* What a downloaded node leaves in the map: processAttachment returns nil
\* when the bytes do not decode, and nothing is stored then.
Collect(m, node) == IF node.Decodes THEN MapPut(m, Attachment(node)) ELSE m

\* The orders in which ranging over the map can yield its values.
MapOrders(m) ==
    {s \in [1..Cardinality(m) -> m] :
        \A a, b \in 1..Cardinality(m) : a # b => s[a] # s[b]}

\* The outcomes of a remote call: NilError is success.
CallOutcomes ==
    IF ctxDone THEN {CtxError}
    ELSE {NilError} \cup (IF faults < MaxFaults THEN RemoteErrors ELSE {})

Call(site, node, n, err) == [site |-> site, node |-> node, n |-> n, err |-> err]

(* --------------------------- runDownload ------------------------------ *)

\* The failure rule looking at the failed counter alone.
AllFailed_AnyFailed(p, s, f) == f > 0

\* The whole-run failure rule.
AllFailed(p, s, f) == p = 0 /\ s = 0 /\ f > 0

\* A failed item returning from runDownload instead of continuing.
ItemFailed_Abort ==
    /\ failedCount' = failedCount + 1
    /\ UNCHANGED <<processedCount, skippedCount, i, pc>>
    /\ result' = "err_item"

\* failedCount++; continue
ItemFailed ==
    /\ failedCount' = failedCount + 1
    /\ UNCHANGED <<processedCount, skippedCount>>
    /\ i' = i + 1
    /\ pc' = "loop"
    /\ result' = result

\* continue, without skippedCount++
ItemSkipped_Uncounted ==
    /\ UNCHANGED <<processedCount, skippedCount, failedCount>>
    /\ i' = i + 1
    /\ pc' = "loop"
    /\ result' = result

\* skippedCount++; continue
ItemSkipped ==
    /\ skippedCount' = skippedCount + 1
    /\ UNCHANGED <<processedCount, failedCount>>
    /\ i' = i + 1
    /\ pc' = "loop"
    /\ result' = result

\* processedCount++
ItemProcessed ==
    /\ processedCount' = processedCount + 1
    /\ UNCHANGED <<skippedCount, failedCount>>
    /\ i' = i + 1
    /\ pc' = "loop"
    /\ result' = result

\* A failed listing logged and treated as an empty one.
ListFails_Continues ==
    /\ messages' = << >>
    /\ i' = 1
    /\ pc' = "loop"
    /\ UNCHANGED result

\* ListMessages returned an error: runDownload returns it.
ListFails ==
    /\ result' = "err_list"
    /\ UNCHANGED <<messages, i, pc>>

\* Connect returning an error after it has set the service.
ConnectFails_HalfConnected ==
    /\ result' = "err_connect"
    /\ service' = TRUE
    /\ UNCHANGED pc

\* Connect returned an error: runDownload returns it.
ConnectFails ==
    /\ result' = "err_connect"
    /\ UNCHANGED <<pc, service>>

\* Connect, with everything runDownload does before it.
Connect ==
    /\ result = "none" /\ pc = "connect"
    /\ \/ /\ service' = TRUE
          /\ pc' = "list"
          /\ UNCHANGED result
          /\ UNCHANGED setupErr
       \/ /\ setupErr' = "connect"
          /\ ConnectFails
    /\ UNCHANGED <<cfgVars, now, faults, ctxDone, messages, i, countVars,
                   getVars, writeVars, fsVars, calls, outcomes, fsAtStart,
                   prev>>

\* ListMessages, then the DEBUG_EMAIL_ID selection.
List ==
    /\ result = "none" /\ pc = "list"
    /\ \/ /\ service /\ (count <= 0 \/ ~ctxDone)
          /\ LET all == ListMessages(MailboxIds, count)
             IN  IF debugEmailID = ""
                 THEN /\ messages' = all
                      /\ i' = 1
                      /\ pc' = "loop"
                      /\ UNCHANGED result
                 ELSE IF \E k \in 1..Len(all) : all[k] = debugEmailID
                 THEN /\ messages' = <<debugEmailID>>
                      /\ i' = 1
                      /\ pc' = "loop"
                      /\ UNCHANGED result
                 ELSE /\ result' = "err_notfound"
                      /\ messages' = all
                      /\ UNCHANGED <<i, pc>>
          /\ UNCHANGED setupErr
       \/ /\ ~service \/ count > 0
          /\ setupErr' = "list"
          /\ ListFails
    /\ UNCHANGED <<cfgVars, now, faults, service, ctxDone, countVars,
                   getVars, writeVars, fsVars, calls, outcomes, fsAtStart,
                   prev>>

\* The head of the loop body: the context check, then GetMessage begins.
LoopTop ==
    /\ result = "none" /\ pc = "loop" /\ i <= Len(messages)
    /\ IF ctxDone
       THEN /\ result' = "err_ctx"
            /\ UNCHANGED <<pc, attempt, calls, email>>
       ELSE /\ pc' = "get"
            /\ attempt' = 1
            /\ calls' = << >>
            /\ email' = NoEmail
            /\ UNCHANGED result
    /\ UNCHANGED <<cfgVars, now, faults, service, ctxDone, messages, i,
                   countVars, part, attachmentMap, writeVars, fsVars,
                   outcomes, histVars>>

\* The loop is over: the summary and the whole-run failure rule.
Finish ==
    /\ result = "none" /\ pc = "loop" /\ i > Len(messages)
    /\ result' = IF AllFailed(processedCount, skippedCount, failedCount)
                 THEN "err_allfailed" ELSE "ok"
    /\ UNCHANGED <<cfgVars, now, faults, pc, service, ctxDone, messages,
                   i, countVars, getVars, writeVars, fsVars, calls, outcomes,
                   histVars>>

(* ----------------------------- GetMessage ----------------------------- *)

\* Users.Messages.Get, first or second attempt, and what GetMessage does
\* with its result.
FetchMessage ==
    /\ result = "none" /\ pc = "get"
    /\ IF ~service
       THEN /\ outcomes' = Append(outcomes, "get_error")
            /\ ItemFailed
            /\ UNCHANGED <<calls, faults, getVars>>
       ELSE \E err \in CallOutcomes :
         /\ calls' = Append(calls, Call("get", 0, attempt, err))
         /\ faults' = IF err = NilError \/ ctxDone THEN faults ELSE faults + 1
         /\ IF err = NilError
            THEN LET msg == RemoteMessage(messages[i])
                 IN  /\ email' = [ID |-> msg.Id, Subject |-> msg.Subject,
                                  Date |-> msg.Date, Attachments |-> << >>]
                     /\ attachmentMap' = {}
                     /\ part' = 1
                     /\ attempt' = 1
                     /\ pc' = "att"
                     /\ UNCHANGED <<result, i, countVars, outcomes>>
            ELSE IF GetMessageRetries(err, attempt)
            THEN /\ pc' = "getBackoff"
                 /\ UNCHANGED <<result, i, countVars, outcomes, getVars>>
            ELSE /\ outcomes' = Append(outcomes, "get_error")
                 /\ ItemFailed
                 /\ UNCHANGED getVars
    /\ UNCHANGED <<cfgVars, now, service, ctxDone, messages, writeVars,
                   fsVars, histVars>>

\* time.Sleep(2 * time.Second) before the second attempt.
Backoff ==
    /\ result = "none" /\ pc \in {"getBackoff", "attBackoff"}
    /\ now' = Min(now + BackoffSeconds, MaxClock + 1)
    /\ calls' = Append(calls, Call("backoff", part, attempt, NilError))
    /\ attempt' = attempt + 1
    /\ pc' = IF pc = "getBackoff" THEN "get" ELSE "att"
    /\ UNCHANGED <<cfgVars, faults, result, service, ctxDone, messages, i,
                   countVars, part, attachmentMap, email, writeVars, fsVars,
                   outcomes, histVars>>

\* processAttachment on a node one of its filters rejects: no download.
SkipAttachment ==
    /\ result = "none" /\ pc = "att"
    /\ part <= Len(RemoteMessage(email.ID).Parts)
    /\ Filtered(email.ID, RemoteMessage(email.ID).Parts[part])
    /\ part' = part + 1
    /\ UNCHANGED <<cfgVars, now, faults, pc, result, service, ctxDone,
                   messages, i, countVars, attempt, attachmentMap, email,
                   writeVars, fsVars, calls, outcomes, histVars>>

\* Users.Messages.Attachments.Get for the node, first or second attempt,
\* the decoding, and the entry in the map.
DownloadAttachment ==
    /\ result = "none" /\ pc = "att"
    /\ part <= Len(RemoteMessage(email.ID).Parts)
    /\ LET node == RemoteMessage(email.ID).Parts[part]
       IN  /\ ~Filtered(email.ID, node)
           /\ \E err \in CallOutcomes :
                /\ calls' = Append(calls, Call("attachment", part, attempt, err))
                /\ faults' = IF err = NilError \/ ctxDone
                             THEN faults ELSE faults + 1
                /\ IF err = NilError
                   THEN /\ attachmentMap' = Collect(attachmentMap, node)
                        /\ part' = part + 1
                        /\ attempt' = 1
                        /\ UNCHANGED pc
                   ELSE IF AttachmentRetries(err, attempt)
                   THEN /\ pc' = "attBackoff"
                        /\ UNCHANGED <<part, attempt, attachmentMap>>
                   ELSE /\ part' = part + 1
                        /\ attempt' = 1
                        /\ UNCHANGED <<pc, attachmentMap>>
    /\ UNCHANGED <<cfgVars, now, result, service, ctxDone, messages, i,
                   countVars, email, writeVars, fsVars, outcomes, histVars>>

\* extractAttachments turns the map into a slice; GetMessage returns.
ReturnMessage ==
    /\ result = "none" /\ pc = "att"
    /\ part > Len(RemoteMessage(email.ID).Parts)
    /\ \E order \in MapOrders(attachmentMap) :
         email' = [email EXCEPT !.Attachments = order]
    /\ pc' = "check"
    /\ UNCHANGED <<cfgVars, now, faults, result, service, ctxDone,
                   messages, i, countVars, attempt, part, attachmentMap,
                   writeVars, fsVars, calls, outcomes, histVars>>

(* ----------------------- skip check and WriteEmail -------------------- *)

\* The entry a new file makes in its folder moves the folder's time.
Touch(ds, name, fs, sec, rest) ==
    IF FileExists(fs, name, sec, rest) THEN ds ELSE Chtimes(ds, name, FsTime)

\* The two ways os.WriteFile can fail: before the file is opened, or after
\* it was created or truncated.
FailedWrites(fs, dir, sec, rest, e) ==
    {fs, WriteFile(fs, dir, sec, rest, Partial(e))}

\* The characters after the formatted date in the names of the files.
MetadataRest(prefix) == StrUnderscore \o prefix.subj \o StrMetadataSuffix
BodyRest(prefix) == StrUnderscore \o prefix.subj \o StrBodySuffix

\* The name WriteEmail gives attachment number n (from 1) before it looks
\* for duplicates.
AttachmentRest(prefix, a, n) ==
    LET generic  == StrAttachmentPrefix \o Itoa(n)
        named    == IF a.Filename = << >> THEN generic ELSE a.Filename
        cleaned  == sanitizeForFilename(named)
        filename == IF cleaned = << >> THEN generic ELSE cleaned
    IN  StrUnderscore \o prefix.subj \o StrUnderscore \o filename

\* os.Stat on a file name longer than the file system takes fails, and not
\* with an error that os.IsNotExist accepts.
NameTooLong(rest) == DateStrLen + Len(rest) > NameMax

\* What the duplicate-name loop yields when it never ends.
NeverReturns == << >>

\* The duplicate-name loop: base_counter.ext for counter 1, 2, ... until
\* os.Stat says that no file of that name exists.  Once a candidate is too
\* long every later one is, and the loop goes on for ever.
RECURSIVE NextFree(_, _, _, _, _)
NextFree(fs, dir, sec, original, counter) ==
    LET ext  == Ext(original)
        base == TrimSuffix(original, ext)
        cand == base \o StrUnderscore \o Itoa(counter) \o ext
    IN  IF NameTooLong(cand) THEN NeverReturns
        ELSE IF ~FileExists(fs, dir, sec, cand) THEN cand
        ELSE NextFree(fs, dir, sec, original, counter + 1)

\* WriteEmail writing every attachment under its plain name.
FreeRest_Overwrite(fs, dir, sec, original) == original

FreeRest(fs, dir, sec, original) ==
    IF NameTooLong(original) THEN NeverReturns
    ELSE IF ~FileExists(fs, dir, sec, original) THEN original
    ELSE NextFree(fs, dir, sec, original, 1)

\* runDownload's check for an earlier download: the planned folder holds a
\* *_metadata.txt.
SkipCheck ==
    /\ result = "none" /\ pc = "check"
    /\ \E t \in TimeNow(email.Date) :
         LET folderName == GenerateFolderName(email, t)
             matches    == Glob(files, folderName, StrMetadataSuffix)
         IN  /\ now' = t
             /\ IF matches # {}
                THEN /\ outcomes' = Append(outcomes, "skipped")
                     /\ ItemSkipped
                ELSE /\ pc' = "mkdir"
                     /\ UNCHANGED <<result, i, countVars, outcomes>>
    /\ UNCHANGED <<cfgVars, faults, service, ctxDone, messages,
                   getVars, writeVars, fsVars, calls, histVars>>

\* WriteEmail, first step: CreateEmailFolder.
CreateEmailFolder ==
    /\ result = "none" /\ pc = "mkdir"
    /\ \E t \in TimeNow(email.Date) :
         LET folderName == generateFilePrefix(email, t)
         IN  /\ now' = t
             /\ \/ /\ dirs' = IF DirExists(dirs, folderName) THEN dirs
                              ELSE MkdirAll(dirs, folderName)
                   /\ folderPath' = folderName
                   /\ pc' = "meta"
                   /\ UNCHANGED <<faults, result, i, countVars, outcomes>>
                \/ /\ ~DirExists(dirs, folderName)
                   /\ faults < MaxFaults
                   /\ faults' = faults + 1
                   /\ outcomes' = Append(outcomes, "write_error")
                   /\ ItemFailed
                   /\ UNCHANGED <<dirs, folderPath>>
    /\ UNCHANGED <<cfgVars, service, ctxDone, messages, getVars,
                   filePrefix, j, files, calls, histVars>>

\* WriteEmail: the file prefix and the metadata file.
WriteMetadata ==
    /\ result = "none" /\ pc = "meta"
    /\ \E t \in TimeNow(email.Date) :
       LET prefix == generateFilePrefix(email, t)
           rest   == MetadataRest(prefix)
       IN  /\ now' = t
           /\ filePrefix' = prefix
           /\ \/ /\ files' = WriteFile(files, folderPath, prefix.sec, rest,
                                       MetadataOf(email))
                 /\ dirs' = Touch(dirs, folderPath, files, prefix.sec, rest)
                 /\ pc' = "body"
                 /\ UNCHANGED <<faults, result, i, countVars, outcomes>>
              \/ /\ faults < MaxFaults
                 /\ faults' = faults + 1
                 /\ files' \in FailedWrites(files, folderPath, prefix.sec,
                                            rest, email)
                 /\ dirs' = IF files' = files THEN dirs
                            ELSE Touch(dirs, folderPath, files, prefix.sec, rest)
                 /\ outcomes' = Append(outcomes, "write_error")
                 /\ ItemFailed
    /\ UNCHANGED <<cfgVars, service, ctxDone, messages, getVars,
                   folderPath, j, calls, histVars>>

\* WriteEmail: the body file.
WriteBody ==
    /\ result = "none" /\ pc = "body"
    /\ LET rest == BodyRest(filePrefix)
       IN  \/ /\ files' = WriteFile(files, folderPath, filePrefix.sec, rest,
                                    BodyOf(email))
              /\ dirs' = Touch(dirs, folderPath, files, filePrefix.sec, rest)
              /\ pc' = "file"
              /\ j' = 1
              /\ UNCHANGED <<faults, result, i, countVars, outcomes>>
           \/ /\ faults < MaxFaults
              /\ faults' = faults + 1
              /\ files' \in FailedWrites(files, folderPath, filePrefix.sec,
                                         rest, email)
              /\ dirs' = IF files' = files THEN dirs
                         ELSE Touch(dirs, folderPath, files, filePrefix.sec, rest)
              /\ outcomes' = Append(outcomes, "write_error")
              /\ ItemFailed
              /\ UNCHANGED j
    /\ UNCHANGED <<cfgVars, now, service, ctxDone, messages, getVars,
                   folderPath, filePrefix, calls, histVars>>

\* WriteEmail: one attachment file; a failed write is logged and the loop
\* goes on.  When the duplicate-name loop never ends the step is never
\* taken.
WriteAttachment ==
    /\ result = "none" /\ pc = "file" /\ j <= Len(email.Attachments)
    /\ LET a    == email.Attachments[j]
           rest == FreeRest(files, folderPath, filePrefix.sec,
                            AttachmentRest(filePrefix, a, j))
       IN  \/ /\ rest # NeverReturns
              /\ files' = WriteFile(files, folderPath, filePrefix.sec, rest,
                                    DataOf(email, a))
              /\ dirs' = Touch(dirs, folderPath, files, filePrefix.sec, rest)
              /\ UNCHANGED faults
           \/ /\ rest # NeverReturns
              /\ faults < MaxFaults
              /\ faults' = faults + 1
              /\ files' \in FailedWrites(files, folderPath, filePrefix.sec,
                                         rest, email)
              /\ dirs' = IF files' = files THEN dirs
                         ELSE Touch(dirs, folderPath, files, filePrefix.sec, rest)
    /\ j' = j + 1
    /\ UNCHANGED <<cfgVars, now, pc, result, service, ctxDone, messages,
                   i, countVars, getVars, folderPath, filePrefix, calls,
                   outcomes, histVars>>

\* WriteEmail: the folder's time is set to the message date (a failure is
\* a warning) and WriteEmail returns nil.
SetFolderTime ==
    /\ result = "none" /\ pc = "file" /\ j > Len(email.Attachments)
    /\ \E t \in TimeNow(email.Date) :
         /\ now' = t
         /\ \/ /\ dirs' = Chtimes(dirs, folderPath, parseEmailDate(email.Date, t))
               /\ UNCHANGED faults
            \/ /\ faults < MaxFaults
               /\ faults' = faults + 1
               /\ UNCHANGED dirs
    /\ outcomes' = Append(outcomes, "processed")
    /\ ItemProcessed
    /\ UNCHANGED <<cfgVars, service, ctxDone, messages, getVars,
                   writeVars, files, calls, histVars>>

(* ----------------------------- environment ---------------------------- *)

\* Where a run stands while it is inside CreateEmailFolder and WriteEmail.
WriteEmailSteps == {"mkdir", "meta", "body", "file"}

\* The command is started again on the same mailbox and output directory;
\* how is how the run before it ended, ds and fs are the folders and files
\* it left, and t is the last second it read.
StartRun(how, ds, fs, t) ==
    /\ run < MaxRuns
    /\ run' = run + 1
    /\ prev' = [result |-> how,
                pc |-> IF how = "killed" /\ pc \in WriteEmailSteps THEN pc ELSE ""]
    /\ dirs' = ds
    /\ files' = fs
    /\ fsAtStart' = [dirs |-> ds, files |-> fs]
    /\ now' \in IF t > MaxClock THEN {t} ELSE t..MaxClock
    /\ pc' = "connect"
    /\ result' = "none"
    /\ service' = FALSE
    /\ ctxDone' = FALSE
    /\ messages' = << >>
    /\ i' = 0
    /\ processedCount' = 0
    /\ skippedCount' = 0
    /\ failedCount' = 0
    /\ attempt' = 0
    /\ part' = 0
    /\ attachmentMap' = {}
    /\ email' = NoEmail
    /\ folderPath' = NoPrefix
    /\ filePrefix' = NoPrefix
    /\ j' = 0
    /\ calls' = << >>
    /\ outcomes' = << >>
    /\ setupErr' = ""
    /\ UNCHANGED <<box, count, debugEmailID, probe, verdict, faults>>

\* The run is over and the command is run again.
NextRun == result # "none" /\ StartRun(result, dirs, files, now)

\* The process is killed where it stands, and the command is run again.
\* os.WriteFile opens the file (creating or truncating it), writes and
\* closes: a process killed inside it leaves the file it was about to
\* write empty or with the first part of its bytes.
Kill ==
    /\ result = "none"
    /\ LET Cut(sec, rest, t) ==
               [dirs  |-> Touch(dirs, folderPath, files, sec, rest),
                files |-> WriteFile(files, folderPath, sec, rest,
                                    Partial(email)),
                now   |-> t]
           attachment ==
               FreeRest(files, folderPath, filePrefix.sec,
                        AttachmentRest(filePrefix, email.Attachments[j], j))
           inside ==
               IF pc = "meta"
               THEN {Cut(generateFilePrefix(email, t).sec,
                         MetadataRest(generateFilePrefix(email, t)), t) :
                         t \in TimeNow(email.Date)}
               ELSE IF pc = "body"
               THEN {Cut(filePrefix.sec, BodyRest(filePrefix), now)}
               ELSE IF pc = "file" /\ j <= Len(email.Attachments)
                       /\ attachment # NeverReturns
               THEN {Cut(filePrefix.sec, attachment, now)}
               ELSE {}
       IN  \E left \in {[dirs |-> dirs, files |-> files, now |-> now]}
                            \cup inside :
               StartRun("killed", left.dirs, left.files, left.now)

\* The deadline of the run's context passes.  The run notices at the next
\* place it consults the context, so the deadline passes just before one.
Expire ==
    /\ result = "none" /\ ~ctxDone /\ faults < MaxFaults
    /\ pc \in {"list", "loop", "get", "att"}
    /\ ctxDone' = TRUE
    /\ faults' = faults + 1
    /\ UNCHANGED <<cfgVars, now, pc, result, service, messages, i,
                   countVars, getVars, writeVars, fsVars, calls, outcomes,
                   histVars>>

Next ==
    \/ Connect
    \/ List
    \/ LoopTop
    \/ Finish
    \/ FetchMessage
    \/ Backoff
    \/ SkipAttachment
    \/ DownloadAttachment
    \/ ReturnMessage
    \/ SkipCheck
    \/ CreateEmailFolder
    \/ WriteMetadata
    \/ WriteBody
    \/ WriteAttachment
    \/ SetFolderTime
    \/ Kill
    \/ NextRun
    \/ Expire

Spec == Init /\ [][Next]_vars

(* -------------------- one run over the part trees --------------------- *)

\* One run of the command, never killed, over a mailbox of TreeMailboxes.
TreeInit ==
    /\ \E b \in 1..Len(TreeMailboxes) :
         box = Len(Mailboxes) + b /\ count = DefaultCount /\ debugEmailID = ""
    /\ probe = NilError
    /\ verdict = FALSE
    /\ Fresh

TreeNext ==
    \/ Connect
    \/ List
    \/ LoopTop
    \/ Finish
    \/ FetchMessage
    \/ Backoff
    \/ SkipAttachment
    \/ DownloadAttachment
    \/ ReturnMessage
    \/ SkipCheck
    \/ CreateEmailFolder
    \/ WriteMetadata
    \/ WriteBody
    \/ WriteAttachment
    \/ SetFolderTime
    \/ Expire

TreeSpec == TreeInit /\ [][TreeNext]_vars

(* ------------------- the Retry Classifier by itself ------------------- *)

\* The status codes and descriptions of the errors the classifier is
\* called on.
ProbeCodes == {0, 400, 401, 403, 404, 428, 429, 430, 499, 500, 501, 503}
ProbeTexts == {<< >>, StrTimeout, StrDeadlineExceeded, StrConnectionReset,
               StrIoTimeout, StrCtxDeadline, StrNotFound, StrResetByPeer,
               StrCapitalTimeout, StrTimeOut}
ProbeErrors == {NilError}
                   \cup {ApiError(c, m) : c \in ProbeCodes, m \in ProbeTexts}
                   \cup {OtherError(m) : m \in ProbeTexts}

ClassifierInit ==
    /\ box = 1 /\ count = DefaultCount /\ debugEmailID = ""
    /\ probe \in ProbeErrors
    /\ verdict = FALSE
    /\ Fresh

\* c.isRetryableError(err)
Classify ==
    /\ pc = "connect"
    /\ verdict' = isRetryableError(probe)
    /\ pc' = "classified"
    /\ UNCHANGED <<box, count, debugEmailID, run, probe, now, faults, result,
                   service, ctxDone, messages, i, countVars, getVars,
                   writeVars, fsVars, calls, outcomes, histVars>>

ClassifierNext == Classify

ClassifierSpec == ClassifierInit /\ [][ClassifierNext]_vars

(* ----------------------- ListMessages by itself ----------------------- *)

\* The sizes of the remote mailboxes and the values of maxResults; a
\* mailbox lists its identifiers newest first.
ListLengths == {0, 1, 2, 499, 500, 501, 999, 1000, 1001, 1200}
ListCounts == {0, 1, 2, 100, 499, 500, 501, 999, 1000, 1001, 1500}
NewestFirst(n) == [k \in 1..n |-> n - k + 1]

\* The variables a function run by itself leaves alone.
idleVars == <<box, count, debugEmailID, run, probe, now, faults, result,
              service, ctxDone, messages, i, countVars, getVars, writeVars,
              fsVars, calls, outcomes, histVars>>

ListInit ==
    /\ box = 1 /\ count = DefaultCount /\ debugEmailID = ""
    /\ probe \in [ids : {NewestFirst(n) : n \in ListLengths},
                   maxResults : ListCounts]
    /\ verdict = FALSE
    /\ Fresh

\* c.ListMessages(ctx, mailbox, maxResults) on a connected client.
Listing ==
    /\ pc = "connect"
    /\ verdict' = ListLoop(probe.ids, 0, probe.maxResults,
                           [Messages |-> << >>, Requests |-> << >>])
    /\ pc' = "listed"
    /\ UNCHANGED idleVars

ListNext == Listing

ListSpec == ListInit /\ [][ListNext]_vars

(* ------------- one call of the client or of the writer ---------------- *)

\* One operation called on its own: Connect, ListMessages or GetMessage on
\* a client that is connected or not, or CreateEmailFolder for a message of
\* the mailbox on an output directory that holds the planned folder or not,
\* empty or not, with or without another folder beside it.
CallInit ==
    /\ \E b \in 2..Len(Mailboxes) : \E k \in 1..Len(Mailboxes[b]) :
         LET m       == Mailboxes[b][k]
             e       == [ID |-> m.Id, Subject |-> m.Subject, Date |-> m.Date,
                         Attachments |-> << >>]
             planned == generateFilePrefix(e, 1)
             other   == [sec |-> 7, subj |-> <<"o">>]
             folders == { {}, {[name |-> planned, mtime |-> FsTime]},
                          {[name |-> planned, mtime |-> planned.sec]},
                          {[name |-> other, mtime |-> FsTime]},
                          {[name |-> planned, mtime |-> planned.sec],
                           [name |-> other, mtime |-> 7]} }
             entries == { File(planned, planned.sec, BodyRest(planned), BodyOf(e)),
                          File(planned, 7, <<"_", "n", "o", "t", "e">>, Partial(e)),
                          File(other, 7, MetadataRest(other), MetadataOf(e)) }
         IN  /\ box = b /\ count = DefaultCount /\ debugEmailID = ""
             /\ i = k
             /\ messages = [n \in 1..Len(Mailboxes[b]) |-> Mailboxes[b][n].Id]
             /\ pc \in {"connect", "list", "get", "mkdir"}
             /\ email = IF pc = "mkdir" THEN e ELSE NoEmail
             /\ dirs \in folders
             /\ files \in SUBSET {f \in entries : DirExists(dirs, f.dir)}
    /\ service \in BOOLEAN
    /\ attempt = IF pc = "get" THEN 1 ELSE 0
    /\ probe = NilError
    /\ verdict = FALSE
    /\ run = 1 /\ now = 1 /\ faults = 0
    /\ result = "none" /\ ctxDone = FALSE
    /\ processedCount = 0 /\ skippedCount = 0 /\ failedCount = 0
    /\ part = 0 /\ attachmentMap = {}
    /\ folderPath = NoPrefix /\ filePrefix = NoPrefix /\ j = 0
    /\ calls = << >> /\ outcomes = << >>
    /\ setupErr = ""
    /\ fsAtStart = [dirs |-> dirs, files |-> files]
    /\ prev = NoRun

CallNext ==
    \/ Connect
    \/ List
    \/ FetchMessage
    \/ CreateEmailFolder

CallSpec == CallInit /\ [][CallNext]_vars

(* ---------------------- isAttachment by itself ------------------------ *)

\* isAttachment looking at the disposition header before the content-id.
isAttachment_DispositionFirst(payload, env) ==
    LET remote == /\ payload.Body # << >>
                  /\ payload.Body[1].AttachmentId # << >>
                  /\ payload.Body[1].Size > 0
    IN  IF \E k \in 1..Len(payload.Headers) :
              /\ ToLower(payload.Headers[k].Name) = <<"c","o","n","t","e","n","t","-","d","i","s","p","o","s","i","t","i","o","n">>
              /\ \/ Contains(ToLower(payload.Headers[k].Value), <<"a","t","t","a","c","h","m","e","n","t">>)
                 \/ Contains(ToLower(payload.Headers[k].Value), <<"f","i","l","e","n","a","m","e">>)
        THEN TRUE
        ELSE IF (\E k \in 1..Len(payload.Headers) :
                    ToLower(payload.Headers[k].Name) = <<"c","o","n","t","e","n","t","-","i","d">>) /\ remote
        THEN env # <<"t","r","u","e">>
        ELSE remote

\* c.isAttachment(part), env being the value of SKIP_INLINE_IMAGES.  A part
\* has its Headers (Name and Value) and its Body: << >> for nil, else one
\* record with AttachmentId and Size.
isAttachment(payload, env) ==
    LET skipInlineImages == env = <<"t","r","u","e">>
        remote == /\ payload.Body # << >>
                  /\ payload.Body[1].AttachmentId # << >>
                  /\ payload.Body[1].Size > 0
    IN  IF (\E k \in 1..Len(payload.Headers) :
               ToLower(payload.Headers[k].Name) = <<"c","o","n","t","e","n","t","-","i","d">>) /\ remote
        THEN ~skipInlineImages
        ELSE IF \E k \in 1..Len(payload.Headers) :
                   /\ ToLower(payload.Headers[k].Name) = <<"c","o","n","t","e","n","t","-","d","i","s","p","o","s","i","t","i","o","n">>
                   /\ \/ Contains(ToLower(payload.Headers[k].Value), <<"a","t","t","a","c","h","m","e","n","t">>)
                      \/ Contains(ToLower(payload.Headers[k].Value), <<"f","i","l","e","n","a","m","e">>)
        THEN TRUE
        ELSE remote

\* The parts isAttachment is called on: no, one or two headers out of
\* content-id, disposition and other headers in several spellings; no body
\* or a body with or without an attachment id and a size; and the three
\* settings of SKIP_INLINE_IMAGES.
PartInit ==
    /\ box = 1 /\ count = DefaultCount /\ debugEmailID = ""
    /\ LET H(n, v) == [Name |-> n, Value |-> v]
           headers == { H(<<"C","o","n","t","e","n","t","-","I","D">>, <<"<","i","1",">">>),
                        H(<<"c","o","n","t","e","n","t","-","i","d">>, <<"<","i","1",">">>),
                        H(<<"C","o","n","t","e","n","t","-","D","i","s","p","o","s","i","t","i","o","n">>, <<"a","t","t","a","c","h","m","e","n","t",";"," ","f","i","l","e","n","a","m","e","=","a",".","t","x","t">>),
                        H(<<"C","O","N","T","E","N","T","-","D","I","S","P","O","S","I","T","I","O","N">>, <<"A","T","T","A","C","H","M","E","N","T">>),
                        H(<<"C","o","n","t","e","n","t","-","D","i","s","p","o","s","i","t","i","o","n">>, <<"i","n","l","i","n","e",";"," ","F","i","l","e","N","a","m","e","=","b",".","p","n","g">>),
                        H(<<"C","o","n","t","e","n","t","-","D","i","s","p","o","s","i","t","i","o","n">>, <<"i","n","l","i","n","e">>),
                        H(<<"C","o","n","t","e","n","t","-","T","y","p","e">>, <<"A","T","T","A","C","H","M","E","N","T">>) }
           lists   == {<< >>} \cup {<<h>> : h \in headers}
                          \cup {<<g, h>> : g, h \in headers}
           bodies  == {<< >>} \cup
                      {<<[AttachmentId |-> a, Size |-> n]>> :
                           a \in {<< >>, <<"x","1">>}, n \in {0, 5}}
           envs    == {<< >>, <<"t","r","u","e">>, <<"f","a","l","s","e">>}
       IN  probe \in [part : [Headers : lists, Body : bodies], env : envs]
    /\ verdict = FALSE
    /\ Fresh

\* c.isAttachment(payload) in extractAttachmentsRecursive
ClassifyPart ==
    /\ pc = "connect"
    /\ verdict' = isAttachment(probe.part, probe.env)
    /\ pc' = "classified"
    /\ UNCHANGED idleVars

PartNext == ClassifyPart

PartSpec == PartInit /\ [][PartNext]_vars

(* --------------------------- the body of a message -------------------- *)

\* gmail.MessagePart as extractBody reads it: Body is << >> for nil, else
\* one record with the inline data.
MessagePart(mimeType, body, parts) ==
    [MimeType |-> mimeType, Body |-> body, Parts |-> parts]
Inline(data) == << [Data |-> data] >>

\* Sample texts with what base64.URLEncoding makes of them.
Base64Samples ==
    { [text |-> <<"<", "b", ">", "H", "i", "<", "/", "b", ">">>,
       data |-> <<"P", "G", "I", "-", "S", "G", "k", "8", "L", "2", "I", "-">>],
      [text |-> <<"<", "p", ">", "a", "&", "a", "m", "p", ";", "b", "<", "/", "p", ">">>,
       data |-> <<"P", "H", "A", "-", "Y", "S", "Z", "h", "b", "X", "A", "7", "Y", "j", "w", "v", "c", "D", "4", "=">>],
      [text |-> <<"H", "i">>,
       data |-> <<"S", "G", "k", "=">>],
      [text |-> <<"R", "&", "D", " ", "<", "x", ">", " ", "\"", "q", "\"", " ", "'", "z", "'">>,
       data |-> <<"U", "i", "Z", "E", "I", "D", "x", "4", "P", "i", "A", "i", "c", "S", "I", "g", "J", "3", "o", "n">>],
      [text |-> <<"&", "l", "t", ";">>,
       data |-> <<"J", "m", "x", "0", "O", "w", "=", "=">>],
      [text |-> <<"&", "&">>,
       data |-> <<"J", "i", "Y", "=">>],
      [text |-> <<">", ">", ">">>,
       data |-> <<"P", "j", "4", "-">>],
      [text |-> <<"?", "?", "?">>,
       data |-> <<"P", "z", "8", "_">>],
      [text |-> <<"a">>,
       data |-> <<"Y", "Q", "=", "=">>],
      [text |-> <<"a", "b">>,
       data |-> <<"Y", "W", "I", "=">>],
      [text |-> <<"x", "\n", "y">>,
       data |-> <<"e", "A", "p", "5">>] }

\* The byte b as a character of a Go string: the printable ASCII characters
\* but the grave accent, the newline and the tab.
Chr(b) ==
    LET upper ==
            << " ", "!", "\"", "#", "$", "%", "&", "'", "(", ")", "*", "+", ",", "-", ".", "/",
               "0", "1", "2", "3", "4", "5", "6", "7", "8", "9", ":", ";", "<", "=", ">", "?",
               "@", "A", "B", "C", "D", "E", "F", "G", "H", "I", "J", "K", "L", "M", "N", "O",
               "P", "Q", "R", "S", "T", "U", "V", "W", "X", "Y", "Z", "[", "\\", "]", "^", "_" >>
        lower ==
            << "a", "b", "c", "d", "e", "f", "g", "h", "i", "j", "k", "l", "m", "n", "o", "p",
               "q", "r", "s", "t", "u", "v", "w", "x", "y", "z", "{", "|", "}", "~" >>
    IN  CASE b \in 32..95 -> upper[b - 31]
          [] b \in 97..126 -> lower[b - 96]
          [] b = 10 -> "\n"
          [] b = 9 -> "\t"

\* base64.URLEncoding.DecodeString: the padded URL-safe alphabet; line
\* breaks are passed over.
DecodeString(s) ==
    LET Alphabet ==
            << "A","B","C","D","E","F","G","H","I","J","K","L","M",
               "N","O","P","Q","R","S","T","U","V","W","X","Y","Z",
               "a","b","c","d","e","f","g","h","i","j","k","l","m",
               "n","o","p","q","r","s","t","u","v","w","x","y","z",
               "0","1","2","3","4","5","6","7","8","9","-","_" >>
        IsSymbol(c) == \E k \in 1..64 : Alphabet[k] = c
        Value(c) == (CHOOSE k \in 1..64 : Alphabet[k] = c) - 1
        NoBreak(c) == c \notin {"\r", "\n"}
        t == SelectSeq(s, NoBreak)
        n == Len(t)
        pad == IF n >= 2 /\ t[n] = "=" /\ t[n - 1] = "=" THEN 2
               ELSE IF n >= 1 /\ t[n] = "=" THEN 1
               ELSE 0
        ok == /\ n % 4 = 0
              /\ \A k \in 1..(n - pad) : IsSymbol(t[k])
        Sextet(k) == IF k <= n - pad THEN Value(t[k]) ELSE 0
        Quantum(q) == Sextet(4 * q - 3) * 262144 + Sextet(4 * q - 2) * 4096
                      + Sextet(4 * q - 1) * 64 + Sextet(4 * q)
        Byte(b) ==
            LET q == (b - 1) \div 3 + 1
                r == (b - 1) % 3
            IN  (Quantum(q) \div (IF r = 0 THEN 65536
                                  ELSE IF r = 1 THEN 256 ELSE 1)) % 256
    IN  [err |-> ~ok,
         data |-> IF ok
                  THEN [b \in 1..((n \div 4) * 3 - pad) |-> Chr(Byte(b))]
                  ELSE << >>]

\* strings.ReplaceAll for a one-character old.
RECURSIVE ReplaceAll(_, _, _)
ReplaceAll(s, old, new) ==
    IF s = << >> THEN << >>
    ELSE (IF Head(s) = old THEN new ELSE <<Head(s)>>)
             \o ReplaceAll(Tail(s), old, new)

\* The template around the escaped text, a chunk for each of its lines.
TemplateHead ==
    << "<!DOCTYPE html>\n",
       "<html>\n",
       "<head>\n",
       "\t<meta charset=\"utf-8\">\n",
       "\t<title>Email Content</title>\n",
       "\t<style>\n",
       "\t\tbody {\n",
       "\t\t\tfont-family: -apple-system, BlinkMacSystemFont, 'Segoe UI', Roboto, sans-serif;\n",
       "\t\t\tline-height: 1.6;\n",
       "\t\t\tmax-width: 800px;\n",
       "\t\t\tmargin: 20px;\n",
       "\t\t\tpadding: 20px;\n",
       "\t\t}\n",
       "\t\tpre {\n",
       "\t\t\twhite-space: pre-wrap;\n",
       "\t\t\tword-wrap: break-word;\n",
       "\t\t\tbackground-color: #f5f5f5;\n",
       "\t\t\tpadding: 15px;\n",
       "\t\t\tborder-radius: 5px;\n",
       "\t\t\tborder: 1px solid #ddd;\n",
       "\t\t}\n",
       "\t</style>\n",
       "</head>\n",
       "<body>\n",
       "\t<pre>" >>
TemplateTail ==
    << "</pre>\n",
       "</body>\n",
       "</html>" >>

\* The escaping with the ampersand replaced last.
wrapPlainTextAsHTML_AmpersandLast(plainText) ==
    LET e1 == ReplaceAll(plainText, "<", <<"&","l","t",";">>)
        e2 == ReplaceAll(e1, ">", <<"&","g","t",";">>)
        e3 == ReplaceAll(e2, "\"", <<"&","q","u","o","t",";">>)
        e4 == ReplaceAll(e3, "'", <<"&","#","3","9",";">>)
        e5 == ReplaceAll(e4, "&", <<"&","a","m","p",";">>)
    IN  TemplateHead \o e5 \o TemplateTail

wrapPlainTextAsHTML(plainText) ==
    LET e1 == ReplaceAll(plainText, "&", <<"&","a","m","p",";">>)
        e2 == ReplaceAll(e1, "<", <<"&","l","t",";">>)
        e3 == ReplaceAll(e2, ">", <<"&","g","t",";">>)
        e4 == ReplaceAll(e3, "\"", <<"&","q","u","o","t",";">>)
        e5 == ReplaceAll(e4, "'", <<"&","#","3","9",";">>)
    IN  TemplateHead \o e5 \o TemplateTail

\* The walk over the part tree: found is what the four pointers hold.
RECURSIVE recursiveExtractBody(_, _)
RECURSIVE recursiveExtractParts(_, _, _)
\* The loop over the parts going from the last part to the first.
RECURSIVE recursiveExtractParts_Backwards(_, _, _)
recursiveExtractParts_Backwards(parts, k, found) ==
    IF k > Len(parts) THEN found
    ELSE recursiveExtractBody(parts[k],
             recursiveExtractParts_Backwards(parts, k + 1, found))

recursiveExtractParts(parts, k, found) ==
    IF k > Len(parts) THEN found
    ELSE recursiveExtractParts(parts, k + 1,
                               recursiveExtractBody(parts[k], found))
recursiveExtractBody(payload, found) ==
    LET decoded == DecodeString(payload.Body[1].Data)
        here ==
            IF payload.Body # << >> /\ payload.Body[1].Data # << >>
               /\ ~decoded.err
            THEN IF payload.MimeType = "text/html" /\ found.htmlContent = << >>
                 THEN [found EXCEPT !.htmlContent = decoded.data,
                                    !.htmlMime = payload.MimeType]
                 ELSE IF payload.MimeType = "text/plain"
                         /\ found.plainContent = << >>
                 THEN [found EXCEPT !.plainContent = decoded.data,
                                    !.plainMime = payload.MimeType]
                 ELSE found
            ELSE found
    IN  recursiveExtractParts(payload.Parts, 1, here)

NothingFound ==
    [htmlContent |-> << >>, plainContent |-> << >>,
     htmlMime |-> "", plainMime |-> ""]

\* extractBody preferring the plain text.
extractBody_PlainFirst(payload) ==
    LET found == recursiveExtractBody(payload, NothingFound)
    IN  IF found.plainContent # << >>
        THEN [Body |-> wrapPlainTextAsHTML(found.plainContent),
              BodyMimeType |-> "text/html"]
        ELSE IF found.htmlContent # << >>
        THEN [Body |-> found.htmlContent, BodyMimeType |-> found.htmlMime]
        ELSE [Body |-> << >>, BodyMimeType |-> "text/html"]

\* extractBody reporting the kind of the part it took the text from.
extractBody_SourceKind(payload) ==
    LET found == recursiveExtractBody(payload, NothingFound)
    IN  IF found.htmlContent # << >>
        THEN [Body |-> found.htmlContent, BodyMimeType |-> found.htmlMime]
        ELSE [Body |-> IF found.plainContent # << >>
                       THEN wrapPlainTextAsHTML(found.plainContent)
                       ELSE << >>,
              BodyMimeType |-> found.plainMime]

extractBody(payload) ==
    LET found == recursiveExtractBody(payload, NothingFound)
    IN  IF found.htmlContent # << >>
        THEN [Body |-> found.htmlContent, BodyMimeType |-> found.htmlMime]
        ELSE IF found.plainContent # << >>
        THEN [Body |-> wrapPlainTextAsHTML(found.plainContent),
              BodyMimeType |-> "text/html"]
        ELSE [Body |-> << >>, BodyMimeType |-> "text/html"]

(* ------------------------ the body extractor alone -------------------- *)

\* The trees extractBody is run on.  The leaves are text parts of both
\* kinds with every sample, with data that does not decode (the standard
\* alphabet's plus sign, missing padding, padding in the middle), with data
\* of line breaks alone (it decodes, to nothing), with empty data and
\* without a body, and parts of other kinds.  The trees are a part alone,
\* two parts under a container in both orders, a text part with a child,
\* and a container under a container beside a third part.
BodyTrees ==
    LET BrokenData ==
            { <<"P","j","4","+">>, <<"Y","Q">>,
              <<"Y","Q","=","=","Y","Q","=","=">> }
        BreaksOnly == { <<"\n">>, <<"\r", "\n">> }
        BodyLeaves ==
            {MessagePart(m, b, << >>) :
                m \in {"text/html", "text/plain"},
                b \in {Inline(e.data) : e \in Base64Samples}
                      \cup {Inline(d) : d \in BrokenData \cup BreaksOnly}
                      \cup {Inline(<< >>), << >>}}
            \cup {MessagePart(m, Inline(<<"S","G","k","=">>), << >>) :
                    m \in {"TEXT/HTML", "image/png",
                           "text/html; charset=utf-8"}}
        FewLeaves ==
            {MessagePart(m, Inline(d), << >>) :
                m \in {"text/html", "text/plain"},
                d \in {<<"P","G","I","-","S","G","k","8","L","2","I","-">>,
                       <<"J","m","x","0","O","w","=","=">>,
                       <<"Y","Q">>}}
    IN  BodyLeaves
        \cup {MessagePart("multipart/alternative", << >>, <<a, b>>) :
                a \in BodyLeaves, b \in FewLeaves}
        \cup {MessagePart("multipart/alternative", << >>, <<a, b>>) :
                a \in FewLeaves, b \in BodyLeaves}
        \cup {MessagePart(a.MimeType, a.Body, <<b>>) :
                a \in FewLeaves, b \in FewLeaves}
        \cup {MessagePart("multipart/mixed", << >>,
                          << MessagePart("multipart/alternative", << >>,
                                         <<a, b>>),
                             c >>) :
                a \in FewLeaves, b \in FewLeaves, c \in FewLeaves}

BodyInit ==
    /\ box = 1 /\ count = DefaultCount /\ debugEmailID = ""
    /\ probe \in BodyTrees
    /\ verdict = FALSE
    /\ Fresh

\* extractBody on the payload, as GetMessage calls it.
ExtractBody ==
    /\ pc = "connect"
    /\ verdict' = extractBody(probe)
    /\ pc' = "extracted"
    /\ UNCHANGED idleVars

BodyNext == ExtractBody

BodySpec == BodyInit /\ [][BodyNext]_vars

(* ------------------------------ properties ---------------------------- *)

Last(s) == s[Len(s)]

\* A step that ends the current item with outcome o.
ItemEnds(o) == Len(outcomes') = Len(outcomes) + 1 /\ Last(outcomes') = o

\* The identifiers of the attachments GetMessage returns for msg when no
\* remote call fails.
AttachmentIdsOf(msg) ==
    {msg.Parts[k].AttachmentId :
        k \in {n \in 1..Len(msg.Parts) :
                 ~Filtered(msg.Id, msg.Parts[n]) /\ msg.Parts[n].Decodes}}

\* Folder dir of fs holds the metadata file of message id.
HoldsMetadata(fs, dir, id) ==
    \E f \in fs : f.dir = dir /\ f.data.kind = "metadata" /\ f.data.id = id

\* Folder dir of fs holds everything WriteEmail writes for msg.
HoldsMessage(fs, dir, msg) ==
    /\ HoldsMetadata(fs, dir, msg.Id)
    /\ \E f \in fs : f.dir = dir /\ f.data.kind = "body" /\ f.data.id = msg.Id
    /\ \A a \in AttachmentIdsOf(msg) :
         \E f \in fs : /\ f.dir = dir /\ f.data.kind = "data"
                       /\ f.data.id = msg.Id /\ f.data.aid = a

\* C1 (idempotence of the run): when a run follows a run that completed,
\* and no remote call or write has failed, the second run counts no item
\* as processed and every listed item as skipped, and every file that was
\* there when it began is still there with the same contents.
C1_Idempotence ==
    (run > 1 /\ prev.result = "ok" /\ result = "ok" /\ faults = 0) =>
        /\ processedCount = 0
        /\ skippedCount = Len(messages)
        /\ fsAtStart.files \subseteq files

\* C2 (re-run after interruption): when a run was killed inside WriteEmail
\* and the next run completes with no remote or write failure, some folder
\* holds, for every listed message, its metadata file, its body file and a
\* file for each of its attachments.
C2_RerunCompletes ==
    (/\ run > 1 /\ prev.result = "killed" /\ prev.pc \in WriteEmailSteps
     /\ result = "ok" /\ faults = 0) =>
        \A k \in 1..Len(messages) :
            \E d \in dirs : HoldsMessage(files, d.name, RemoteMessage(messages[k]))

\* C3 (no message lost to the skip check): an item is counted as skipped
\* only when some folder holds the metadata file of the message with that
\* identifier; stated for the behaviours in which no remote call and no
\* write has failed.
C3_SkippedWasMaterialized ==
    [][(ItemEnds("skipped") /\ faults' = 0) =>
          \E d \in dirs : HoldsMetadata(files, d.name, email.ID)]_vars

\* C4 (skip before fetch): an item that is skipped was skipped without a
\* remote call made for it and without a folder created.
C4_SkipBeforeFetch ==
    [][ItemEnds("skipped") => (calls' = << >> /\ dirs' = dirs)]_vars

\* C5 (the output directory is append-only): a file in a folder that holds
\* a metadata file is never removed and never holds anything else later;
\* stated for the behaviours in which no remote call and no write has
\* failed.
C5_AppendOnly ==
    [][faults' = 0 =>
          \A f \in files :
              (\E g \in files : g.dir = f.dir /\ g.data.kind = "metadata")
                  => f \in files']_vars

\* The remote attempts among the calls made for the current item.
Attempts == {k \in 1..Len(calls) : calls[k].site # "backoff"}
SameTarget(a, b) == a.site = b.site /\ a.node = b.node
Failed(k) == calls[k].err # NilError

\* C6 (bounded retry at both call sites): of the calls made for one item,
\* every remote attempt is a first or a second one and each target gets at
\* most two; a second attempt comes right after the backoff that follows a
\* failed first attempt on the same target whose error the classifier
\* accepts; a failed first attempt with such an error is followed by the
\* backoff; any other failed fetch has ended the item, and any other failed
\* download has left the attachment out and moved to the next node.
C6_BoundedRetry ==
    /\ \A k \in Attempts :
         /\ calls[k].n \in {1, 2}
         /\ Cardinality({m \in Attempts : SameTarget(calls[m], calls[k])}) <= 2
         /\ calls[k].n = 2 =>
              /\ k >= 3
              /\ calls[k - 1].site = "backoff"
              /\ SameTarget(calls[k - 2], calls[k])
              /\ calls[k - 2].n = 1
              /\ Failed(k - 2)
              /\ isRetryableError(calls[k - 2].err)
    /\ \A k \in Attempts :
         (k < Len(calls) /\ Failed(k) /\ calls[k + 1].site = "backoff") =>
             calls[k].n = 1 /\ isRetryableError(calls[k].err)
    /\ (calls # << >> /\ Len(calls) \in Attempts /\ Failed(Len(calls))) =>
         LET c == Last(calls)
         IN  IF c.n = 1 /\ isRetryableError(c.err)
             THEN pc = (IF c.site = "get" THEN "getBackoff" ELSE "attBackoff")
             ELSE IF c.site = "get"
             THEN pc = "loop" /\ Last(outcomes) = "get_error"
             ELSE /\ part > c.node
                  /\ \A a \in attachmentMap :
                       a.AttachmentID #
                           RemoteMessage(email.ID).Parts[c.node].AttachmentId

\* The fetch failed with an error the classifier accepts, was tried again
\* after the backoff and failed again: the item is over.
C6_Witness_SecondAttemptFails ==
    /\ Len(calls) = 3
    /\ calls[1].site = "get" /\ calls[1].n = 1 /\ isRetryableError(calls[1].err)
    /\ calls[2].site = "backoff"
    /\ calls[3].site = "get" /\ calls[3].n = 2 /\ Failed(3)
    /\ pc = "loop"

\* What C7 expects of the classifier, written without it.
IsApi(err) == err.kind = "api"
IsTransport(err) == err.kind = "other"
Occurs(w, s) ==
    \E k \in 1..(Len(s) - Len(w) + 1) : SubSeq(s, k, k + Len(w) - 1) = w
SaysTimeout(err) ==
    \/ Occurs(<<"t","i","m","e","o","u","t">>, err.msg)
    \/ Occurs(<<"d","e","a","d","l","i","n","e"," ","e","x","c","e","e","d","e","d">>,
              err.msg)
    \/ Occurs(<<"c","o","n","n","e","c","t","i","o","n"," ","r","e","s","e","t">>,
              err.msg)

\* C7 (Retry Classifier result): the classifier returns true exactly for an
\* API error of status 429 or of status 500 and above, and for an error
\* that is not an API error and whose description has "timeout", "deadline
\* exceeded" or "connection reset" in it; it returns false for nil and for
\* every other error, the API errors of the other statuses among them.
C7_ClassifierResult ==
    pc = "classified" =>
        (verdict <=>
            \/ IsApi(probe) /\ (probe.code = 429 \/ probe.code >= 500)
            \/ IsTransport(probe) /\ SaysTimeout(probe))

\* The classifier has returned true for an API error of status 500.
C7_Witness_ServerError ==
    pc = "classified" /\ IsApi(probe) /\ probe.code = 500 /\ verdict

\* C8 (per-item failure isolation): the step in which GetMessage fails for
\* good, or WriteEmail returns an error, adds one to the failed counter,
\* leaves the processed and skipped counters alone and moves the loop to
\* the next item with the run still going.
C8_FailureIsolation ==
    [][(ItemEnds("get_error") \/ ItemEnds("write_error")) =>
          /\ failedCount' = failedCount + 1
          /\ processedCount' = processedCount
          /\ skippedCount' = skippedCount
          /\ i' = i + 1
          /\ pc' = "loop"
          /\ result' = "none"]_vars

\* An item failed, and the item after it was processed in the same run.
C8_Witness_NextItemProcessed ==
    /\ Len(outcomes) >= 2
    /\ outcomes[1] \in {"get_error", "write_error"}
    /\ outcomes[2] = "processed"
    /\ failedCount = 1 /\ processedCount = 1

\* C9 (fatal run-level errors): when Connect or ListMessages failed, the
\* run has returned that error, has made no remote call for a message, has
\* counted no item and has left the output directory as it found it.
C9_FatalSetupErrors ==
    setupErr # "" =>
        /\ result = (IF setupErr = "connect" THEN "err_connect" ELSE "err_list")
        /\ calls = << >>
        /\ outcomes = << >>
        /\ processedCount = 0 /\ skippedCount = 0 /\ failedCount = 0
        /\ [dirs |-> dirs, files |-> files] = fsAtStart

\* ListMessages failed in a run over an output directory that an earlier
\* run had written to.
C9_Witness_ListFails ==
    setupErr = "list" /\ result = "err_list" /\ fsAtStart.files # {}

\* C10 (whole-run failure rule): a run that reached the end of the loop
\* returned an error exactly when it processed nothing, skipped nothing and
\* failed at least one item.
C10_WholeRunFailure ==
    result \in {"ok", "err_allfailed"} =>
        (result = "err_allfailed" <=>
            processedCount = 0 /\ skippedCount = 0 /\ failedCount >= 1)

\* A run ended in success although one of its items failed.
C10_Witness_FailedButSuccess ==
    result = "ok" /\ failedCount >= 1 /\ processedCount + skippedCount >= 1

\* A remote call of the current item met the passed deadline.
DeadlineMetInFlight ==
    \E k \in 1..Len(calls) : calls[k].site # "backoff" /\ calls[k].err = CtxError

\* C11 (run-level timeout and cancellation): once the deadline of the run
\* has passed, no step of that run creates a folder or writes a file and no
\* item is counted as processed any more; and a run whose deadline passed
\* while remote calls of an item were in flight does not end in success.
C11_DeadlineStopsRun ==
    [][(ctxDone /\ run' = run) =>
          /\ dirs' = dirs
          /\ files' = files
          /\ processedCount' = processedCount
          /\ DeadlineMetInFlight => result' # "ok"]_vars

\* C12 (listing bound and order): every page is asked for with page size
\* min(remaining, 500), where remaining is maxResults less what the earlier
\* pages returned; the listing goes on exactly while something remains and
\* the remote reports a next page; the result is the pages in the order
\* received, that is the first identifiers of the mailbox in its order, and
\* has at most maxResults of them.
C12_ListingBoundAndOrder ==
    pc = "listed" =>
        LET ids   == probe.ids
            max   == probe.maxResults
            reqs  == verdict.Requests
            got   == verdict.Messages
            \* what the pages before request k returned
            before(k) == reqs[k].pageToken
            \* what page k returned
            page(k) == IF k < Len(reqs) THEN reqs[k + 1].pageToken - reqs[k].pageToken
                       ELSE Len(got) - reqs[k].pageToken
        IN  /\ \A k \in 1..Len(reqs) :
                 /\ max - before(k) > 0
                 /\ reqs[k].pageSize =
                      (IF max - before(k) < 500 THEN max - before(k) ELSE 500)
                 /\ page(k) <= reqs[k].pageSize
                 /\ k < Len(reqs) =>
                      (before(k) + page(k) < Len(ids) /\ max - before(k + 1) > 0)
            /\ (max > 0) = (reqs # << >>)
            /\ reqs # << >> =>
                 (Len(got) >= Len(ids) \/ max - Len(got) <= 0)
            /\ Len(got) <= Len(ids)
            /\ \A k \in 1..Len(got) : got[k] = ids[k]
            /\ Len(got) <= max

\* A mailbox of 1200 messages was listed with maxResults 1001: three pages,
\* of 500, 500 and 1 identifiers.
C12_Witness_ThreePages ==
    /\ pc = "listed"
    /\ Len(probe.ids) = 1200 /\ probe.maxResults = 1001
    /\ Len(verdict.Requests) = 3
    /\ verdict.Requests[3].pageSize = 1
    /\ Len(verdict.Messages) = 1001


(* ----------------------- attachments of a message --------------------- *)

\* GetMessage has returned the message of the current item, and calls holds
\* the remote calls it made.
Returned == pc \in {"check", "mkdir", "meta", "body", "file"}

\* The candidate nodes of the current message, in the order of the walk.
Candidates == RemoteMessage(email.ID).Parts

\* A download of node p succeeded, at the first or the second attempt.
Fetched(p) ==
    \E k \in 1..Len(calls) :
        calls[k].site = "attachment" /\ calls[k].node = p /\ ~Failed(k)

\* The places of the returned sequence that hold attachment id.
Places(id) ==
    {a \in 1..Len(email.Attachments) : email.Attachments[a].AttachmentID = id}

\* The returned sequence has an entry made from node p.
Appears(p) ==
    \E a \in Places(Candidates[p].AttachmentId) :
        email.Attachments[a].Size = Candidates[p].Size

\* The skip reasons, as the specification words them.
TooLarge(p) == Candidates[p].Size > 10 * 1024 * 1024
IdTooLong(p) == Len(Candidates[p].AttachmentId) > 500
Denylisted(p) ==
    /\ email.ID = "19855d64da73b5be"
    /\ Occurs(<<"A","N","G","j","d","J">>, Candidates[p].AttachmentId)
Obtained(p) ==
    /\ Candidates[p].AttachmentId # << >>
    /\ ~TooLarge(p) /\ ~IdTooLong(p) /\ ~Denylisted(p)
    /\ Fetched(p)
    /\ Candidates[p].Decodes

\* C13 (attachment deduplication): in the message GetMessage returns, no
\* attachment id occurs twice in the attachment sequence, and the id of
\* every node that was downloaded and decoded occurs exactly once.
C13_AttachmentDeduplication ==
    Returned =>
        /\ \A a \in 1..Len(email.Attachments) :
             Cardinality(Places(email.Attachments[a].AttachmentID)) = 1
        /\ \A p \in 1..Len(Candidates) :
             (Fetched(p) /\ Candidates[p].Decodes) =>
                 Cardinality(Places(Candidates[p].AttachmentId)) = 1

\* Two nodes with the same id were both downloaded and decoded, and the
\* message was returned with one attachment.
C13_Witness_SameIdTwice ==
    /\ Returned
    /\ \E p, q \in 1..Len(Candidates) :
         /\ p < q
         /\ Candidates[p].AttachmentId = Candidates[q].AttachmentId
         /\ Obtained(p) /\ Obtained(q)
    /\ Len(email.Attachments) = 1

\* C14 (no repeated download): among the calls of one GetMessage, no two
\* first attempts of the attachment download are for the same attachment
\* id.
C14_NoRepeatedDownload ==
    \A k, m \in 1..Len(calls) :
        (/\ k < m
         /\ calls[k].site = "attachment" /\ calls[k].n = 1
         /\ calls[m].site = "attachment" /\ calls[m].n = 1) =>
            Candidates[calls[k].node].AttachmentId #
                Candidates[calls[m].node].AttachmentId

\* C15 (size ceiling): no node larger than 10 MiB appears in the returned
\* attachment sequence; a node of exactly 10 MiB or of one byte less that
\* passes the other tests and whose download and decoding succeeded does.
C15_SizeCeiling ==
    Returned =>
        \A p \in 1..Len(Candidates) :
            /\ TooLarge(p) => ~Appears(p)
            /\ (/\ Candidates[p].Size \in {10485760, 10485759}
                /\ Candidates[p].AttachmentId # << >>
                /\ ~IdTooLong(p) /\ ~Denylisted(p)
                /\ Fetched(p)
                /\ Candidates[p].Decodes) => Appears(p)

\* The message with nodes of 10 MiB, of one byte less and of one byte more
\* was returned with the first two and without the third.
C15_Witness_AtAndUnder ==
    /\ Returned
    /\ \E p, q, r \in 1..Len(Candidates) :
         /\ Candidates[p].Size = 10485760 /\ Appears(p)
         /\ Candidates[q].Size = 10485759 /\ Appears(q)
         /\ Candidates[r].Size = 10485761 /\ ~Appears(r)
    /\ Len(email.Attachments) = 2

\* C16 (filters precede download): no attachment download, first attempt
\* or second, is ever made for a node that is larger than 10 MiB, whose id
\* is longer than 500 characters, or that the denylist names.
C16_FiltersPrecedeDownload ==
    \A k \in 1..Len(calls) :
        calls[k].site = "attachment" =>
            /\ ~TooLarge(calls[k].node)
            /\ ~IdTooLong(calls[k].node)
            /\ ~Denylisted(calls[k].node)

\* The message of the denylist was returned: its listed node and its node
\* with the long id were passed over, and its ordinary node was downloaded.
C16_Witness_DenylistedPassedOver ==
    /\ Returned
    /\ \E p, q, r \in 1..Len(Candidates) :
         /\ Denylisted(p) /\ ~Appears(p)
         /\ IdTooLong(q) /\ ~Appears(q)
         /\ Obtained(r) /\ Appears(r)

\* C17 (attachment failures are absorbed): every entry of the returned
\* attachment sequence comes from a node that passed the filters, was
\* downloaded and decoded; every such node has its entry, whatever happened
\* to the other nodes; and an item for which an attachment download was
\* made has not ended as a failed fetch.
C17_AttachmentFailuresAbsorbed ==
    /\ Returned =>
         /\ \A a \in 1..Len(email.Attachments) :
              \E p \in 1..Len(Candidates) :
                  /\ Obtained(p)
                  /\ email.Attachments[a].AttachmentID = Candidates[p].AttachmentId
                  /\ email.Attachments[a].Size = Candidates[p].Size
         /\ \A p \in 1..Len(Candidates) :
              Obtained(p) => Places(Candidates[p].AttachmentId) # {}
    /\ (/\ pc = "loop"
        /\ \E k \in 1..Len(calls) : calls[k].site = "attachment") =>
            Last(outcomes) # "get_error"

\* A download failed twice and another node's bytes did not decode; the
\* message was written with the one attachment left and counted as
\* processed.
C17_Witness_ProcessedWithoutThem ==
    /\ pc = "loop"
    /\ outcomes = <<"processed">>
    /\ processedCount = 1 /\ failedCount = 0
    /\ \E k \in 1..Len(calls) :
         calls[k].site = "attachment" /\ calls[k].n = 2 /\ Failed(k)
    /\ \E p \in 1..Len(Candidates) : Fetched(p) /\ ~Candidates[p].Decodes
    /\ Len(email.Attachments) = 1
    /\ \E f \in files : f.data.kind = "metadata" /\ f.data.id = email.ID


(* --------------------------- body of a message ------------------------ *)

\* The parts of a tree in the order of the walk: a part, then its children
\* from the first to the last.
RECURSIVE Preorder(_)
RECURSIVE PreorderFrom(_, _)
PreorderFrom(parts, k) ==
    IF k > Len(parts) THEN << >>
    ELSE Preorder(parts[k]) \o PreorderFrom(parts, k + 1)
Preorder(p) == <<p>> \o PreorderFrom(p.Parts, 1)

\* Part p is of the kind and has inline data that decodes to a non-empty
\* text: the encoding of one of the sample texts.
Readable(p, kind) ==
    /\ p.MimeType = kind
    /\ \E e \in Base64Samples : p.Body = <<[Data |-> e.data]>>
ClearText(p) ==
    (CHOOSE e \in Base64Samples : p.Body = <<[Data |-> e.data]>>).text

\* Part p is of the kind and has non-empty inline data that decodes,
\* be it to nothing.
Decodable(p, kind) ==
    \/ Readable(p, kind)
    \/ /\ p.MimeType = kind
       /\ p.Body # << >>
       /\ p.Body[1].Data # << >>
       /\ \A k \in 1..Len(p.Body[1].Data) : p.Body[1].Data[k] \in {"\r", "\n"}
ContentOf(p) ==
    IF \E e \in Base64Samples : p.Body = <<[Data |-> e.data]>>
    THEN ClearText(p)
    ELSE << >>
DecodablePlaces(tree, kind) ==
    {k \in 1..Len(Preorder(tree)) : Decodable(Preorder(tree)[k], kind)}

\* The places of the walk with a readable part of the kind.
PlacesOf(tree, kind) ==
    {k \in 1..Len(Preorder(tree)) : Readable(Preorder(tree)[k], kind)}
FirstOf(tree, kind) ==
    Preorder(tree)[CHOOSE k \in PlacesOf(tree, kind) :
                       \A m \in PlacesOf(tree, kind) : k <= m]

\* The text with each of the five characters replaced by its entity, in one
\* pass from left to right.
RECURSIVE Escaped(_)
Escaped(s) ==
    IF s = << >> THEN << >>
    ELSE (CASE Head(s) = "&" -> <<"&","a","m","p",";">>
            [] Head(s) = "<" -> <<"&","l","t",";">>
            [] Head(s) = ">" -> <<"&","g","t",";">>
            [] Head(s) = "\"" -> <<"&","q","u","o","t",";">>
            [] Head(s) = "'" -> <<"&","#","3","9",";">>
            [] OTHER -> <<Head(s)>>) \o Escaped(Tail(s))

\* C18 as worded (markup beats plain): when the tree has a text/html part
\* and a text/plain part, each with non-empty inline data that decodes,
\* extractBody returns the content of the first such text/html part of the
\* walk and nothing of the plain part.
C18_MarkupBeatsPlain_AnyData ==
    (/\ pc = "extracted"
     /\ DecodablePlaces(probe, "text/html") # {}
     /\ DecodablePlaces(probe, "text/plain") # {}) =>
        verdict.Body =
            ContentOf(Preorder(probe)[
                CHOOSE k \in DecodablePlaces(probe, "text/html") :
                    \A m \in DecodablePlaces(probe, "text/html") : k <= m])

\* C18 amended (markup beats plain): when the tree has a text/html part
\* and a text/plain part, each with inline data that decodes to a
\* non-empty text, extractBody returns the text of the first such text/html
\* part of the walk, unwrapped, wherever the plain part stands.
C18_MarkupBeatsPlain ==
    (/\ pc = "extracted"
     /\ PlacesOf(probe, "text/html") # {}
     /\ PlacesOf(probe, "text/plain") # {}) =>
        verdict.Body = ClearText(FirstOf(probe, "text/html"))

\* The plain part comes before the markup part in the walk, and the body is
\* the markup part's text.
C18_Witness_PlainComesFirst ==
    /\ pc = "extracted"
    /\ PlacesOf(probe, "text/html") # {}
    /\ PlacesOf(probe, "text/plain") # {}
    /\ \A h \in PlacesOf(probe, "text/html") :
         \E t \in PlacesOf(probe, "text/plain") : t < h
    /\ verdict.Body = <<"<", "b", ">", "H", "i", "<", "/", "b", ">">>

\* C19 (body kind): whatever the tree, extractBody reports the kind
\* text/html: for a body taken from a markup part, for a wrapped plain text
\* and for the empty body.
C19_BodyKindIsMarkup ==
    pc = "extracted" => verdict.BodyMimeType = "text/html"

\* A tree without a readable text part: the body is empty and its kind is
\* text/html.
C19_Witness_EmptyBody ==
    /\ pc = "extracted"
    /\ PlacesOf(probe, "text/html") = {}
    /\ PlacesOf(probe, "text/plain") = {}
    /\ Len(Preorder(probe)) > 1
    /\ verdict = [Body |-> << >>, BodyMimeType |-> "text/html"]

\* C20 (wrapping of a plain body): when the tree has a readable text/plain
\* part and no readable text/html part, the body is the template with, in
\* its place, the first plain part's text in which every & < > " ' has
\* become its entity and nothing else has changed.
C20_PlainOnlyWrapping ==
    (/\ pc = "extracted"
     /\ PlacesOf(probe, "text/html") = {}
     /\ PlacesOf(probe, "text/plain") # {}) =>
        verdict.Body =
            TemplateHead \o Escaped(ClearText(FirstOf(probe, "text/plain")))
                \o TemplateTail

\* The plain text has all five characters; its ampersand has become
\* &amp; and the entities' own ampersands are as they were put.
C20_Witness_AllFive ==
    /\ pc = "extracted"
    /\ PlacesOf(probe, "text/html") = {}
    /\ PlacesOf(probe, "text/plain") # {}
    /\ LET text == ClearText(FirstOf(probe, "text/plain"))
       IN  \A c \in {"&", "<", ">", "\"", "'"} :
               \E k \in 1..Len(text) : text[k] = c
    /\ SubSeq(verdict.Body, Len(TemplateHead) + 1,
              Len(verdict.Body) - Len(TemplateTail)) =
           <<"R", "&","a","m","p",";", "D", " ", "&","l","t",";", "x",
             "&","g","t",";", " ", "&","q","u","o","t",";", "q",
             "&","q","u","o","t",";", " ", "&","#","3","9",";", "z",
             "&","#","3","9",";">>


(* ------------------------------ the names ----------------------------- *)

\* The metadata files of the output directory that are whole.
MetadataFiles == {f \in files : f.data.kind = "metadata"}

\* No folder name is longer than 200 characters: the 19 of the date, the
\* underscore and the subject.
PrefixWithinBudget ==
    \A d \in dirs : 19 + 1 + Len(d.name.subj) <= 200

\* C21 (name planning): the prefix depends on the date header and the
\* subject alone, so that whenever a message is written its metadata file
\* gets the same folder and the same name; and no prefix is longer than 200
\* characters.
C21_NamePlanning ==
    /\ \A f, g \in MetadataFiles :
         f.data.id = g.data.id =>
             f.dir = g.dir /\ f.sec = g.sec /\ f.rest = g.rest
    /\ PrefixWithinBudget


\* C22 (one prefix per message): while WriteEmail writes a message, the
\* prefix of its file names is the name of its folder; hence every file of
\* the output directory begins with the name of the folder it is in.
C22_OnePrefixPerMessage ==
    /\ pc \in {"body", "file"} => filePrefix = folderPath
    /\ \A f \in files :
         /\ f.sec = f.dir.sec
         /\ HasPrefix(f.rest, <<"_">> \o f.dir.subj)


\* The date of the current message is in none of the known layouts.
Undated ==
    \A k \in 1..Len(KnownLayouts) : email.Date.layout # KnownLayouts[k]

\* C23 (an unparseable date degrades, never fails): in every step of
\* WriteEmail on a message whose date is in no known layout, and in which
\* no failure is injected, the date used is what the clock reads at that
\* step - in the folder name, in the file prefix and in the folder's time -
\* the name has the subject (or no-subject) after it, WriteEmail goes on to
\* its next step, and its last step counts the message as processed.
C23_UnparseableDateDegrades ==
    [][(/\ pc \in WriteEmailSteps
        /\ Undated
        /\ run' = run
        /\ faults' = faults) =>
           /\ pc = "mkdir" =>
                /\ pc' = "meta"
                /\ folderPath'.sec = now'
                /\ folderPath'.subj # << >>
                /\ DirExists(dirs', folderPath')
           /\ pc = "meta" =>
                /\ pc' = "body"
                /\ filePrefix'.sec = now'
                /\ filePrefix'.subj = folderPath.subj
           /\ pc = "body" => pc' = "file"
           /\ pc = "file" => pc' \in {"file", "loop"}
           /\ pc' = "loop" =>
                /\ ItemEnds("processed")
                /\ processedCount' = processedCount + 1
                /\ failedCount' = failedCount
                /\ result' = "none"
                /\ \E d \in dirs' : d.name = folderPath /\ d.mtime = now']_vars

\* The undated message was written without any failure: its folder is named
\* after a reading of the clock, holds its metadata file, and the message
\* counts as processed.
C23_Witness_UndatedProcessed ==
    /\ pc = "loop" /\ Undated /\ email.ID = "m3"
    /\ faults = 0 /\ run = 1
    /\ Last(outcomes) = "processed"
    /\ processedCount >= 1
    /\ \E f \in MetadataFiles :
         /\ f.data.id = "m3"
         /\ f.dir.sec >= 1
         /\ f.dir.subj = <<"n","o","-","s","u","b","j","e","c","t">>


\* The k-th name tried for an attachment whose plain name is original:
\* original itself for k = 0, else _k put before the extension.
Candidate(original, k) ==
    IF k = 0 THEN original
    ELSE TrimSuffix(original, Ext(original)) \o <<"_">> \o Itoa(k)
             \o Ext(original)

\* The files of the current folder that hold attachment data.
WrittenHere(fs) ==
    {f \in fs : f.dir = folderPath /\ f.data.kind \in {"data", "partial"}}

\* C24 (duplicate attachment names): every attachment write that succeeds
\* makes one new file and touches no other; its name is the first of the
\* plain name, _1, _2, ... that no file of the folder has, every name
\* before it being taken.
C24_DuplicateAttachmentNames ==
    [][(/\ pc = "file" /\ j' = j + 1 /\ faults' = faults /\ run' = run) =>
          LET original == AttachmentRest(filePrefix, email.Attachments[j], j)
          IN  \E k \in 0..Cardinality(files) :
                  LET name == Candidate(original, k)
                  IN  /\ ~FileExists(files, folderPath, filePrefix.sec, name)
                      /\ \A m \in 0..(k - 1) :
                           FileExists(files, folderPath, filePrefix.sec,
                                      Candidate(original, m))
                      /\ files' = files \cup
                             {File(folderPath, filePrefix.sec, name,
                                   DataOf(email, email.Attachments[j]))}]_vars

\* Three attachments: a.txt, a_1.txt, and one more whose name is a.txt once
\* sanitized and which was written as a_2.txt because both were there.
C24_Witness_SecondSuffix ==
    /\ pc = "loop" /\ faults = 0
    /\ outcomes = <<"processed">>
    /\ \E f, g, h \in WrittenHere(files) :
         /\ HasSuffix(f.rest, <<"_", "a", ".", "t", "x", "t">>)
         /\ HasSuffix(g.rest, <<"k", "_", "a", "_", "1", ".", "t", "x", "t">>)
         /\ HasSuffix(h.rest, <<"_", "a", "_", "2", ".", "t", "x", "t">>)
         /\ h.data.aid = <<"x", "5">>
         /\ f.data.aid # g.data.aid


\* Every attachment of the current message is a whole file of its folder.
AttachmentsWhole(fs) ==
    \A k \in 1..Len(email.Attachments) :
        \E f \in fs : /\ f.dir = folderPath
                      /\ f.data = DataOf(email, email.Attachments[k])

\* C25 (write failure is a failed item): a failure to make the folder or
\* to write the metadata or the body ends the item as failed, and an item is
\* counted as processed only when each of its attachments was written in
\* full.
C25_WriteFailureFailsItem ==
    [][/\ (/\ pc \in {"mkdir", "meta", "body"}
           /\ faults' = faults + 1 /\ run' = run) =>
              /\ ItemEnds("write_error")
              /\ failedCount' = failedCount + 1
              /\ processedCount' = processedCount
       /\ (/\ pc \in WriteEmailSteps
           /\ processedCount' = processedCount + 1 /\ run' = run) =>
              AttachmentsWhole(files')]_vars


(* ------------------------- the folder of a message -------------------- *)

\* C26 (idempotent folder creation): CreateEmailFolder on a folder that
\* exists returns its path without an error and leaves every folder, every
\* modification time and every file as they were; on a folder that does not
\* exist it makes the folder, unless making it fails; and a second call
\* right after a call that succeeded changes nothing.
C26_IdempotentFolderCreation ==
    [][pc = "mkdir" =>
          \E t \in TimeNow(email.Date) :
              LET planned == generateFilePrefix(email, t)
                  existed == \E d \in dirs : d.name = planned
              IN  /\ now' = t
                  /\ files' = files
                  /\ existed =>
                       /\ pc' = "meta" /\ folderPath' = planned
                       /\ dirs' = dirs /\ faults' = faults
                  /\ ~existed =>
                       \/ /\ pc' = "meta" /\ folderPath' = planned
                          /\ \E d \in dirs' : d.name = planned /\ dirs' = dirs \cup {d}
                       \/ /\ pc' = "loop" /\ dirs' = dirs
                          /\ ItemEnds("write_error")
                  /\ pc' = "meta" =>
                       (IF DirExists(dirs', planned) THEN dirs'
                        ELSE MkdirAll(dirs', planned)) = dirs']_vars

\* CreateEmailFolder has returned the path of a folder that was there
\* before the call, with its own time and with files in it.
C26_Witness_FolderReused ==
    /\ pc = "meta"
    /\ fsAtStart.files # {} /\ files = fsAtStart.files /\ dirs = fsAtStart.dirs
    /\ \E d \in dirs : d.name = folderPath /\ d.mtime # FsTime
    /\ \E f \in files : f.dir = folderPath


(* -------------------------- attachment or not ------------------------- *)

\* The part has a header of this name, letter case apart.
HasHeader(payload, name) ==
    \E k \in 1..Len(payload.Headers) : ToLower(payload.Headers[k].Name) = name

\* The part has a disposition header whose value has the word, letter case
\* apart.
DispositionSays(payload, word) ==
    \E k \in 1..Len(payload.Headers) :
        /\ ToLower(payload.Headers[k].Name) = <<"c","o","n","t","e","n","t","-","d","i","s","p","o","s","i","t","i","o","n">>
        /\ Contains(ToLower(payload.Headers[k].Value), word)

\* The part has a non-empty remote attachment id and a positive size.
RemoteData(payload) ==
    \E b \in {payload.Body[k] : k \in 1..Len(payload.Body)} :
        b.AttachmentId # << >> /\ b.Size > 0

\* C27 (attachment classification): isAttachment is true exactly when the
\* part has a disposition header that says attachment or filename, or has a
\* remote attachment id and a positive size; except that with
\* SKIP_INLINE_IMAGES set to true a part with a content-id header, an
\* attachment id and a positive size is never an attachment.  Header names
\* and values are compared letter case apart.
C27_AttachmentClassification ==
    pc = "classified" =>
        LET payload  == probe.part
            excluded == /\ probe.env = <<"t","r","u","e">>
                        /\ HasHeader(payload, <<"c","o","n","t","e","n","t","-","i","d">>)
                        /\ RemoteData(payload)
        IN  verdict <=>
                /\ ~excluded
                /\ \/ DispositionSays(payload, <<"a","t","t","a","c","h","m","e","n","t">>)
                   \/ DispositionSays(payload, <<"f","i","l","e","n","a","m","e">>)
                   \/ RemoteData(payload)

\* With the mode on, a part with content-id, attachment id, size and an
\* attachment disposition was classified, and is no attachment.
C27_Witness_InlineExcluded ==
    /\ pc = "classified" /\ ~verdict
    /\ probe.env = <<"t","r","u","e">>
    /\ HasHeader(probe.part, <<"c","o","n","t","e","n","t","-","i","d">>)
    /\ DispositionSays(probe.part, <<"a","t","t","a","c","h","m","e","n","t">>)
    /\ RemoteData(probe.part)


(* --------------------------- first in tree order ---------------------- *)

\* What extractBody makes of the two slots.
BodyFrom(html, plain) ==
    IF html # << >> THEN html
    ELSE IF plain # << >> THEN TemplateHead \o Escaped(plain) \o TemplateTail
    ELSE << >>

\* The content of the first part of the walk among the places, nothing when
\* there is none.
FirstContent(tree, places) ==
    IF places = {} THEN << >>
    ELSE ContentOf(Preorder(tree)[CHOOSE k \in places :
                                      \A m \in places : k <= m])

\* C28 as worded (first in tree order wins): the markup slot holds the
\* content of the first text/html part of the pre-order walk whose inline
\* data is non-empty and decodes, the plain slot that of the first such
\* text/plain part, and the body is made of these two slots.
C28_FirstInTreeOrder_AnyData ==
    pc = "extracted" =>
        verdict.Body =
            BodyFrom(FirstContent(probe, DecodablePlaces(probe, "text/html")),
                     FirstContent(probe, DecodablePlaces(probe, "text/plain")))

\* C28 amended (first in tree order wins): the markup slot holds the text
\* of the first text/html part of the pre-order walk (a part before its
\* children, the children in sequence order) whose inline data decodes to a
\* non-empty text, the plain slot that of the first such text/plain part;
\* later such parts, parts whose data does not decode and parts whose data
\* decodes to nothing change neither slot, and the body is made of the two
\* slots.
C28_FirstInTreeOrder ==
    pc = "extracted" =>
        verdict.Body =
            BodyFrom(FirstContent(probe, PlacesOf(probe, "text/html")),
                     FirstContent(probe, PlacesOf(probe, "text/plain")))

\* The walk meets a text/html part whose data does not decode, then a
\* readable one, then another readable one with another text: the body is
\* the text of the one in the middle.
C28_Witness_BrokenThenTwo ==
    /\ pc = "extracted"
    /\ \E a, b, c \in 1..Len(Preorder(probe)) :
         /\ a < b /\ b < c
         /\ Preorder(probe)[a].MimeType = "text/html"
         /\ Preorder(probe)[a].Body # << >>
         /\ Preorder(probe)[a].Body[1].Data # << >>
         /\ ~Decodable(Preorder(probe)[a], "text/html")
         /\ Readable(Preorder(probe)[b], "text/html")
         /\ Readable(Preorder(probe)[c], "text/html")
         /\ ClearText(Preorder(probe)[b]) # ClearText(Preorder(probe)[c])
         /\ verdict.Body = ClearText(Preorder(probe)[b])


(* ------------------------------ connection ---------------------------- *)

\* C29 (connection precondition): on a client that is not connected,
\* ListMessages returns an error and lists nothing, GetMessage returns an
\* error and the item fails, and neither makes a remote call; a Connect that
\* fails leaves the client as it was; so a listing is only had from a
\* connected client and a message only fetched from a connected client.
C29_ConnectionPrecondition ==
    [][/\ (pc = "connect" /\ result' = "err_connect") =>
              service' = service /\ pc' = pc
       /\ (pc = "connect" /\ pc' = "list") => service'
       /\ (pc = "list" /\ ~service) =>
              /\ result' = "err_list" /\ pc' = pc
              /\ messages' = messages /\ calls' = calls /\ service' = service
       /\ (pc = "list" /\ pc' = "loop") => service
       /\ (pc = "get" /\ ~service) =>
              /\ ItemEnds("get_error") /\ failedCount' = failedCount + 1
              /\ pc' = "loop"
              /\ calls' = calls /\ email' = email /\ service' = service
       /\ (pc = "get" /\ pc' \in {"att", "getBackoff"}) =>
              service /\ Len(calls') = Len(calls) + 1]_vars

\* GetMessage was called on a client that is not connected: the item has
\* failed and no call was made.
C29_Witness_FetchWhileDisconnected ==
    /\ pc = "loop" /\ ~service
    /\ outcomes = <<"get_error">> /\ failedCount = 1
    /\ calls = << >> /\ email = NoEmail


(* ------------------------------ the counters -------------------------- *)

\* How many of the items handled so far in this run ended in one of the
\* ways.
Ended(ways) == Cardinality({k \in 1..Len(outcomes) : outcomes[k] \in ways})

\* C30 (counter accounting): wherever the run stands, the three counters
\* add up to the number of listed items handled so far; every item handled
\* has moved one counter by one, the counter of the way it ended; and when
\* the loop has ended normally the counters add up to the number of listed
\* items.
C30_CounterAccounting ==
    /\ processedCount + skippedCount + failedCount = Len(outcomes)
    /\ i >= 1 => /\ Len(outcomes) = i - 1
                 /\ i - 1 <= Len(messages)
    /\ i = 0 => outcomes = << >>
    /\ processedCount = Ended({"processed"})
    /\ skippedCount = Ended({"skipped"})
    /\ failedCount = Ended({"get_error", "write_error"})
    /\ result \in {"ok", "err_allfailed"} =>
           processedCount + skippedCount + failedCount = Len(messages)

\* A run over two listed items has ended normally: the first item was
\* skipped, the second failed.
C30_Witness_SkippedAndFailed ==
    /\ result = "ok" /\ Len(messages) = 2
    /\ outcomes = <<"skipped", "write_error">>
    /\ skippedCount = 1 /\ failedCount = 1 /\ processedCount = 0

====
